---- MODULE Spec2Model ----
(***************************************************************************)
(* Deployment, backup and recovery engine of goodbye's dotfiles package.   *)
(*                                                                         *)
(* Go strings are sequences of one-character strings, so that prefix       *)
(* tests, concatenation, path joining and lexicographic comparison are     *)
(* computed the way the code computes them.  The filesystem is a function  *)
(* from canonical absolute paths (sequences of entry names) to nodes.      *)
(***************************************************************************)
EXTENDS Integers, Sequences, FiniteSets, TLC

VARIABLES fs, now, last, calls

vars == <<fs, now, last, calls>>

(***************************************************************************)
(* Bounds of the model.                                                    *)
(***************************************************************************)
\* number of clock ticks the model follows
MaxTicks == 1
\* number of calls of importFile, importDirectory and recoverFile in one behaviour
MaxOps == 2
\* number of calls of Import and Backup in one behaviour
MaxBatches == 1
\* symbolic links followed in one path resolution before ELOOP
MaxLinks == 3
\* elements of the longest path the system accepts before ENAMETOOLONG
MaxPath == 6

(***************************************************************************)
(* Strings.                                                                *)
(***************************************************************************)
\* the characters that occur, in byte order
Alphabet ==
  <<".", "/", "0", "1", "2", "3", "4", "5", "6", "7", "8", "9",
    "a", "b", "c", "d", "e", "h", "k", "l", "n", "p", "r", "s", "t", "u",
    "x", "y", "z", "~">>

Code(c) == CHOOSE i \in 1..Len(Alphabet) : Alphabet[i] = c

Min(S) == CHOOSE x \in S : \A y \in S : x <= y

\* Go's s < t on strings: bytewise lexicographic
StrLess(s, t) ==
  LET n == IF Len(s) < Len(t) THEN Len(s) ELSE Len(t)
      diff == {i \in 1..n : s[i] # t[i]}
  IN IF diff = {} THEN Len(s) < Len(t)
     ELSE Code(s[Min(diff)]) < Code(t[Min(diff)])

\* strings.HasPrefix
HasPrefix(s, p) == Len(p) <= Len(s) /\ SubSeq(s, 1, Len(p)) = p

\* strings.TrimPrefix
TrimPrefix(s, p) == IF HasPrefix(s, p) THEN SubSeq(s, Len(p) + 1, Len(s)) ELSE s

Slash == <<"/">>
Tilde == <<"~">>
BackupInfix == <<".", "b", "a", "c", "k", "u", "p", ".">>
Latest == <<"l", "a", "t", "e", "s", "t">>

(***************************************************************************)
(* time.Now().Format("20060102150405"): the clock counts the seconds of    *)
(* one day, 2026-02-15; the layout prints year, month, day, hour, minute   *)
(* and second, each zero padded, with no separators.                       *)
(***************************************************************************)
Digit(n) == Alphabet[3 + n]

TwoDigits(n) == <<Digit((n \div 10) % 10), Digit(n % 10)>>

DateDigits == <<"2", "0", "2", "6", "0", "2", "1", "5">>

\* a layout that stops at the hour
FormatTime_toHour(t) ==
  DateDigits \o TwoDigits((t \div 3600) % 24) \o <<"0", "0", "0", "0">>

FormatTime(t) ==
  DateDigits \o TwoDigits((t \div 3600) % 24) \o TwoDigits((t \div 60) % 60)
             \o TwoDigits(t % 60)

\* 07:10:59, one second before the minute changes
StartClock == 25859

(***************************************************************************)
(* Paths (path/filepath on a Unix system).                                 *)
(***************************************************************************)
\* a value an assignment of the code names, and what the code does with it
With(value, Rest(_)) == Rest(value)

IsAbs(s) == Len(s) > 0 /\ s[1] = "/"

\* the non-empty pieces of s from position from on, cut at the positions seps
RECURSIVE Cut(_, _, _)
Cut(s, from, seps) ==
  IF seps = {}
  THEN IF from <= Len(s) THEN <<SubSeq(s, from, Len(s))>> ELSE <<>>
  ELSE With(Min(seps), LAMBDA k :
         (IF k > from THEN <<SubSeq(s, from, k - 1)>> ELSE <<>>)
         \o Cut(s, k + 1, seps \ {k}))

\* the non-empty elements of s between separators
Elements[s \in Seq(STRING)] == Cut(s, 1, {i \in 1..Len(s) : s[i] = "/"})

Dot == <<".">>
DotDot == <<".", ".">>

\* filepath.Clean on the elements: "." is dropped, ".." removes the element
\* before it (at the root it is dropped, at the start of a relative path kept)
RECURSIVE CleanElements(_, _, _)
CleanElements(abs, done, rest) ==
  IF rest = <<>> THEN done
  ELSE LET e == Head(rest) IN
       IF e = Dot THEN CleanElements(abs, done, Tail(rest))
       ELSE IF e = DotDot
            THEN IF done # <<>> /\ done[Len(done)] # DotDot
                 THEN CleanElements(abs, SubSeq(done, 1, Len(done) - 1), Tail(rest))
                 ELSE IF abs THEN CleanElements(abs, done, Tail(rest))
                 ELSE CleanElements(abs, Append(done, e), Tail(rest))
            ELSE CleanElements(abs, Append(done, e), Tail(rest))

RECURSIVE Unsplit(_)
Unsplit(elems) ==
  IF elems = <<>> THEN <<>>
  ELSE IF Len(elems) = 1 THEN elems[1]
  ELSE elems[1] \o Slash \o Unsplit(Tail(elems))

Clean[s \in Seq(STRING)] ==
  With(CleanElements(IsAbs(s), <<>>, Elements[s]), LAMBDA elems :
    IF IsAbs(s) THEN Slash \o Unsplit(elems)
    ELSE IF elems = <<>> THEN Dot ELSE Unsplit(elems))

\* filepath.Join of two elements: empty elements are ignored, the rest is
\* joined with a separator and cleaned
Join(a, b) ==
  IF a = <<>> /\ b = <<>> THEN <<>>
  ELSE IF a = <<>> THEN Clean[b]
  ELSE IF b = <<>> THEN Clean[a]
  ELSE Clean[a \o Slash \o b]

\* filepath.Dir: everything before the last separator, cleaned
Dir[s \in Seq(STRING)] ==
  LET seps == {i \in 1..Len(s) : s[i] = "/"} IN
  IF seps = {} THEN Dot
  ELSE Clean[SubSeq(s, 1, CHOOSE i \in seps : \A j \in seps : j <= i)]

(***************************************************************************)
(* The filesystem.  A node is a regular file with its bytes, a directory   *)
(* or a symbolic link with its target string.  fs maps the canonical       *)
(* absolute path of every existing entry (the sequence of its element      *)
(* names from the root, <<>> being the root directory) to its node.        *)
(***************************************************************************)
FileNode(c) == [kind |-> "file", content |-> c, target |-> <<>>]
DirNode == [kind |-> "dir", content |-> "", target |-> <<>>]
LinkNode(t) == [kind |-> "symlink", content |-> "", target |-> t]

\* the working directory of the process, against which relative paths resolve
Cwd == << <<"h">> >>

IsUnder(p, q) == Len(p) <= Len(q) /\ SubSeq(q, 1, Len(p)) = p

Restrict(f, S) == [q \in S |-> f[q]]

\* the entry at p with everything below it, keyed by the path relative to p
TreeAt(f, p) ==
  LET S == {q \in DOMAIN f : IsUnder(p, q)} IN
  [r \in {SubSeq(q, Len(p) + 1, Len(q)) : q \in S} |-> f[p \o r]]

RemoveTree(f, p) == Restrict(f, {q \in DOMAIN f : ~IsUnder(p, q)})

\* f with the tree t planted at p
Plant(f, p, t) ==
  [q \in {p \o r : r \in DOMAIN t} |-> t[SubSeq(q, Len(p) + 1, Len(q))]] @@ f

Parent(p) == IF p = <<>> THEN <<>> ELSE SubSeq(p, 1, Len(p) - 1)

\* Path resolution of the kernel: cur is the directory reached so far, rest
\* the elements still to look up.  Symbolic links are followed in every
\* element but the last, and in the last one when followLast.  The result
\* names the place of the entry, which may or may not exist there.
RECURSIVE Walk(_, _, _, _, _)
Walk(f, cur, rest, followLast, fuel) ==
  IF rest = <<>> THEN [err |-> "nil", path |-> cur]
  ELSE LET e == Head(rest)
           more == Tail(rest)
           p == Append(cur, e)
       IN IF e = Dot THEN Walk(f, cur, more, followLast, fuel)
          ELSE IF e = DotDot THEN Walk(f, Parent(cur), more, followLast, fuel)
          ELSE IF p \notin DOMAIN f
               THEN IF more = <<>> THEN [err |-> "nil", path |-> p]
                    ELSE [err |-> "ENOENT", path |-> p]
          ELSE IF f[p].kind = "symlink" /\ (more # <<>> \/ followLast)
               THEN IF fuel = 0 THEN [err |-> "ELOOP", path |-> p]
                    ELSE Walk(f, IF IsAbs(f[p].target) THEN <<>> ELSE cur,
                              Elements[f[p].target] \o more, followLast, fuel - 1)
          ELSE IF more = <<>> THEN [err |-> "nil", path |-> p]
          ELSE IF f[p].kind = "dir" THEN Walk(f, p, more, followLast, fuel)
          ELSE [err |-> "ENOTDIR", path |-> p]

Resolve(f, s, followLast) ==
  IF s = <<>> THEN [err |-> "ENOENT", path |-> <<>>]
  ELSE With(Elements[s], LAMBDA elems :
    IF Len(elems) > MaxPath THEN [err |-> "ENAMETOOLONG", path |-> <<>>]
    ELSE Walk(f, IF IsAbs(s) THEN <<>> ELSE Cwd, elems, followLast, MaxLinks))

NoNode == [kind |-> "none", content |-> "", target |-> <<>>]

StatAt(f, r) ==
  IF r.err # "nil" THEN [err |-> r.err, node |-> NoNode, path |-> r.path]
  ELSE IF r.path \notin DOMAIN f THEN [err |-> "ENOENT", node |-> NoNode, path |-> r.path]
  ELSE [err |-> "nil", node |-> f[r.path], path |-> r.path]

\* os.Lstat
Lstat(f, s) == StatAt(f, Resolve(f, s, FALSE))

\* os.Stat
Stat(f, s) == StatAt(f, Resolve(f, s, TRUE))

\* os.IsNotExist
IsNotExist(err) == err = "ENOENT"

HasChildren(f, p) == \E q \in DOMAIN f : IsUnder(p, q) /\ q # p

\* os.Remove: unlink, or rmdir of an empty directory
Remove(f, s) ==
  With(Lstat(f, s), LAMBDA st :
    IF st.err # "nil" THEN [fs |-> f, err |-> st.err]
    ELSE IF st.node.kind = "dir" /\ HasChildren(f, st.path)
         THEN [fs |-> f, err |-> "ENOTEMPTY"]
    ELSE IF st.path = <<>> THEN [fs |-> f, err |-> "EBUSY"]
    ELSE [fs |-> RemoveTree(f, st.path), err |-> "nil"])

\* os.RemoveAll: the entry and everything below it; a missing path is no error
RemoveAll(f, s) ==
  With(Lstat(f, s), LAMBDA st :
    IF IsNotExist(st.err) THEN [fs |-> f, err |-> "nil"]
    ELSE IF st.err # "nil" THEN [fs |-> f, err |-> st.err]
    ELSE IF st.path = <<>> THEN [fs |-> f, err |-> "EBUSY"]
    ELSE [fs |-> RemoveTree(f, st.path), err |-> "nil"])

\* os.Rename on Unix.  Go first refuses a new name that is an existing
\* directory other than the old entry itself (EEXIST); then rename(2) moves
\* the entry with its subtree, replacing an existing non-directory.
Rename(f, old, new) ==
  With(Lstat(f, old), LAMBDA so : With(Lstat(f, new), LAMBDA sn :
    IF sn.err = "nil" /\ sn.node.kind = "dir" /\ so.err # "nil"
    THEN [fs |-> f, err |-> so.err]
    ELSE IF sn.err = "nil" /\ sn.node.kind = "dir" /\ (old = new \/ so.path # sn.path)
         THEN [fs |-> f, err |-> "EEXIST"]
    ELSE IF so.err # "nil" THEN [fs |-> f, err |-> so.err]
    ELSE IF sn.err # "nil" /\ ~(sn.err = "ENOENT" /\ Resolve(f, new, FALSE).err = "nil")
         THEN [fs |-> f, err |-> sn.err]
    ELSE IF so.path = sn.path THEN [fs |-> f, err |-> "nil"]
    ELSE IF so.path = <<>> THEN [fs |-> f, err |-> "EBUSY"]
    ELSE IF so.node.kind = "dir" /\ sn.err = "nil" THEN [fs |-> f, err |-> "ENOTDIR"]
    ELSE IF IsUnder(so.path, sn.path) THEN [fs |-> f, err |-> "EINVAL"]
    ELSE [fs |-> Plant(RemoveTree(RemoveTree(f, so.path), sn.path), sn.path,
                       TreeAt(f, so.path)),
          err |-> "nil"]))

\* os.Mkdir
Mkdir(f, s) ==
  With(Resolve(f, s, FALSE), LAMBDA r :
    IF r.err # "nil" THEN [fs |-> f, err |-> r.err]
    ELSE IF r.path \in DOMAIN f THEN [fs |-> f, err |-> "EEXIST"]
    ELSE [fs |-> Plant(f, r.path, <<>> :> DirNode), err |-> "nil"])

\* os.MkdirAll: nothing to do for an existing directory; otherwise the parent
\* is made first and then the directory itself
RECURSIVE MkdirAll(_, _)
MkdirAll(f, s) ==
  With(Stat(f, s), LAMBDA st :
    IF st.err = "nil"
    THEN [fs |-> f, err |-> IF st.node.kind = "dir" THEN "nil" ELSE "ENOTDIR"]
    ELSE With(MkdirAll(f, Dir[s]), LAMBDA up :
      IF up.err # "nil" THEN up
      ELSE With(Mkdir(up.fs, s), LAMBDA made : With(Lstat(up.fs, s), LAMBDA again :
        IF made.err # "nil" /\ again.err = "nil" /\ again.node.kind = "dir"
        THEN [fs |-> up.fs, err |-> "nil"]
        ELSE made))))

\* os.Symlink: the target string is stored as given
Symlink(f, target, link) ==
  With(Resolve(f, link, FALSE), LAMBDA r :
    IF r.err # "nil" THEN [fs |-> f, err |-> r.err]
    ELSE IF r.path \in DOMAIN f THEN [fs |-> f, err |-> "EEXIST"]
    ELSE [fs |-> Plant(f, r.path, <<>> :> LinkNode(target)), err |-> "nil"])

\* the names of a set of strings in ascending order
RECURSIVE SortNames(_)
SortNames(S) ==
  IF S = {} THEN <<>>
  ELSE LET m == CHOOSE x \in S : \A y \in S : y = x \/ StrLess(x, y)
       IN <<m>> \o SortNames(S \ {m})

\* os.ReadDir: the entries of a directory, sorted by file name
ReadDir(f, s) ==
  With(Stat(f, s), LAMBDA st :
    IF st.err # "nil" THEN [err |-> st.err, entries |-> <<>>]
    ELSE IF st.node.kind # "dir" THEN [err |-> "ENOTDIR", entries |-> <<>>]
    ELSE With(SortNames({q[Len(q)] : q \in
                {x \in DOMAIN f : Len(x) = Len(st.path) + 1 /\ IsUnder(st.path, x)}}),
              LAMBDA names :
      [err |-> "nil",
       entries |-> [i \in 1..Len(names) |->
                      [name |-> names[i],
                       isDir |-> f[Append(st.path, names[i])].kind = "dir"]]]))

(***************************************************************************)
(* The engine: internal/dotfiles.                                          *)
(***************************************************************************)
methodName(symlink) == IF symlink THEN "symlink" ELSE "copy"

\* expandTilde, with os.UserHomeDir() = HomeDir
HomeDir == <<"/", "h">>

expandTilde(path) ==
  IF HasPrefix(path, Tilde) THEN Join(HomeDir, SubSeq(path, 2, Len(path))) ELSE path

\* copyFile: os.Open and Stat of the source, os.OpenFile of the destination
\* with O_CREATE|O_TRUNC (which follows a link at the destination), io.Copy.
\* A source that is a directory opens, and fails only when it is read, after
\* the destination has been created empty.
copyFile(f, src, dst) ==
  With(Stat(f, src), LAMBDA ss : With(Resolve(f, dst, TRUE), LAMBDA rd :
    IF ss.err # "nil" THEN [fs |-> f, err |-> ss.err]
    ELSE IF rd.err # "nil" THEN [fs |-> f, err |-> rd.err]
    ELSE IF rd.path \in DOMAIN f /\ f[rd.path].kind = "dir"
         THEN [fs |-> f, err |-> "EISDIR"]
    ELSE IF ss.node.kind = "dir"
         THEN [fs |-> Plant(f, rd.path, <<>> :> FileNode("")), err |-> "EISDIR"]
    ELSE [fs |-> Plant(f, rd.path, <<>> :> FileNode(ss.node.content)), err |-> "nil"]))

\* the loop of copyDirectory without the descent into sub-directories
RECURSIVE copyEntries_flat(_, _, _, _)
copyEntries_flat(f, src, dst, entries) ==
  IF entries = <<>> THEN [fs |-> f, err |-> "nil"]
  ELSE With(Head(entries), LAMBDA entry :
       With(IF entry.isDir THEN [fs |-> f, err |-> "nil"]
            ELSE copyFile(f, Join(src, entry.name), Join(dst, entry.name)), LAMBDA one :
         IF one.err # "nil" THEN one
         ELSE copyEntries_flat(one.fs, src, dst, Tail(entries))))

RECURSIVE copyDirectory(_, _, _)
RECURSIVE copyEntries(_, _, _, _)

\* the loop of copyDirectory over the entries read from src
copyEntries(f, src, dst, entries) ==
  IF entries = <<>> THEN [fs |-> f, err |-> "nil"]
  ELSE With(Head(entries), LAMBDA entry :
       With(Join(src, entry.name), LAMBDA srcPath :
       With(Join(dst, entry.name), LAMBDA dstPath :
       With(IF entry.isDir THEN copyDirectory(f, srcPath, dstPath)
            ELSE copyFile(f, srcPath, dstPath), LAMBDA one :
         IF one.err # "nil" THEN one
         ELSE copyEntries(one.fs, src, dst, Tail(entries))))))

copyDirectory(f, src, dst) ==
  With(Stat(f, src), LAMBDA srcInfo :
    IF srcInfo.err # "nil" THEN [fs |-> f, err |-> srcInfo.err]
    ELSE With(MkdirAll(f, dst), LAMBDA made :
      IF made.err # "nil" THEN made
      ELSE With(ReadDir(made.fs, src), LAMBDA rd :
        IF rd.err # "nil" THEN [fs |-> made.fs, err |-> rd.err]
        ELSE copyEntries(made.fs, src, dst, rd.entries))))

\* the backup name built from the base name of dst in the home directory
backupPathOf_inHome(dst, t) ==
  HomeDir \o Slash \o Elements[dst][Len(Elements[dst])] \o BackupInfix \o FormatTime(t)

\* fmt.Sprintf("%s.backup.%s", dst, time.Now().Format("20060102150405"))
backupPathOf(dst, t) == dst \o BackupInfix \o FormatTime(t)

\* the result of a deploy or recover call: the filesystem it leaves, the
\* error of the failing system call ("nil" when none failed) and the message
\* it is wrapped in ("" when it is returned as it is)
Done(f) == [fs |-> f, err |-> "nil", msg |-> "", cleared |-> "none"]
Failed(f, err, msg) == [fs |-> f, err |-> err, msg |-> msg, cleared |-> "none"]

\* r, with the system call that was issued on the existing destination
\* ("rename", "remove", "removeAll", or "none" when there was nothing there)
Clearing(r, call) == [r EXCEPT !.cleared = call]

\* the part of importFile and importDirectory after the destination is cleared
installAt(f, src, dst, useSymlink, isDirectory) ==
  With(MkdirAll(f, Dir[dst]), LAMBDA made :
    IF made.err # "nil" THEN Failed(made.fs, made.err, "failed to create parent directory")
    ELSE With(IF useSymlink THEN Symlink(made.fs, src, dst)
              ELSE IF isDirectory THEN copyDirectory(made.fs, src, dst)
              ELSE copyFile(made.fs, src, dst), LAMBDA r :
      Failed(r.fs, r.err, "")))

\* importFile with "useBackup && !isSymlink" written as "!isSymlink"
importFile_alwaysBacksUp(f, t, src, dst, useSymlink, useBackup) ==
  With(Lstat(f, dst), LAMBDA info :
    IF info.err = "nil"
    THEN IF info.node.kind # "symlink"
         THEN With(Rename(f, dst, backupPathOf(dst, t)), LAMBDA mv :
                IF mv.err # "nil"
                THEN Clearing(Failed(f, mv.err, "failed to backup"), "rename")
                ELSE Clearing(installAt(mv.fs, src, dst, useSymlink, FALSE), "rename"))
         ELSE With(Remove(f, dst), LAMBDA rm :
                IF rm.err # "nil"
                THEN Clearing(Failed(f, rm.err, "failed to remove existing file"), "remove")
                ELSE Clearing(installAt(rm.fs, src, dst, useSymlink, FALSE), "remove"))
    ELSE installAt(f, src, dst, useSymlink, FALSE))

\* importFile with "useBackup && !isSymlink" written as "useBackup"
importFile_backsUpLinks(f, t, src, dst, useSymlink, useBackup) ==
  With(Lstat(f, dst), LAMBDA info :
    IF info.err = "nil"
    THEN IF useBackup
         THEN With(Rename(f, dst, backupPathOf(dst, t)), LAMBDA mv :
                IF mv.err # "nil"
                THEN Clearing(Failed(f, mv.err, "failed to backup"), "rename")
                ELSE Clearing(installAt(mv.fs, src, dst, useSymlink, FALSE), "rename"))
         ELSE With(Remove(f, dst), LAMBDA rm :
                IF rm.err # "nil"
                THEN Clearing(Failed(f, rm.err, "failed to remove existing file"), "remove")
                ELSE Clearing(installAt(rm.fs, src, dst, useSymlink, FALSE), "remove"))
    ELSE installAt(f, src, dst, useSymlink, FALSE))

importFile(f, t, src, dst, useSymlink, useBackup) ==
  With(Lstat(f, dst), LAMBDA info :
    IF info.err = "nil"
    THEN With(info.node.kind = "symlink", LAMBDA isSymlink :
         IF useBackup /\ ~isSymlink
         THEN With(Rename(f, dst, backupPathOf(dst, t)), LAMBDA mv :
                IF mv.err # "nil"
                THEN Clearing(Failed(f, mv.err, "failed to backup"), "rename")
                ELSE Clearing(installAt(mv.fs, src, dst, useSymlink, FALSE), "rename"))
         ELSE With(Remove(f, dst), LAMBDA rm :
                IF rm.err # "nil"
                THEN Clearing(Failed(f, rm.err, "failed to remove existing file"), "remove")
                ELSE Clearing(installAt(rm.fs, src, dst, useSymlink, FALSE), "remove")))
    ELSE installAt(f, src, dst, useSymlink, FALSE))

\* importDirectory that deletes what lies at the backup name before it
\* renames the destination
importDirectory_clearsBackupName(f, t, src, dst, useSymlink, useBackup) ==
  With(Lstat(f, dst), LAMBDA info :
    IF info.err = "nil"
    THEN With(info.node.kind = "symlink", LAMBDA isSymlink :
         IF useBackup /\ ~isSymlink
         THEN With(Rename(RemoveAll(f, backupPathOf(dst, t)).fs, dst, backupPathOf(dst, t)),
                   LAMBDA mv :
                IF mv.err # "nil"
                THEN Clearing(Failed(f, mv.err, "failed to backup"), "rename")
                ELSE Clearing(installAt(mv.fs, src, dst, useSymlink, TRUE), "rename"))
         ELSE IF isSymlink
              THEN With(Remove(f, dst), LAMBDA rm :
                     IF rm.err # "nil"
                     THEN Clearing(Failed(f, rm.err, "failed to remove existing symlink"),
                                   "remove")
                     ELSE Clearing(installAt(rm.fs, src, dst, useSymlink, TRUE), "remove"))
              ELSE With(RemoveAll(f, dst), LAMBDA rm :
                     IF rm.err # "nil"
                     THEN Clearing(Failed(f, rm.err, "failed to remove existing directory"),
                                   "removeAll")
                     ELSE Clearing(installAt(rm.fs, src, dst, useSymlink, TRUE),
                                   "removeAll")))
    ELSE installAt(f, src, dst, useSymlink, TRUE))

\* importDirectory that removes the existing entry instead of renaming it
importDirectory_neverBacksUp(f, t, src, dst, useSymlink, useBackup) ==
  With(Lstat(f, dst), LAMBDA info :
    IF info.err = "nil"
    THEN With(RemoveAll(f, dst), LAMBDA rm :
           IF rm.err # "nil"
           THEN Clearing(Failed(f, rm.err, "failed to remove existing directory"),
                         "removeAll")
           ELSE Clearing(installAt(rm.fs, src, dst, useSymlink, TRUE), "removeAll"))
    ELSE installAt(f, src, dst, useSymlink, TRUE))

importDirectory(f, t, src, dst, useSymlink, useBackup) ==
  With(Lstat(f, dst), LAMBDA info :
    IF info.err = "nil"
    THEN With(info.node.kind = "symlink", LAMBDA isSymlink :
         IF useBackup /\ ~isSymlink
         THEN With(Rename(f, dst, backupPathOf(dst, t)), LAMBDA mv :
                IF mv.err # "nil"
                THEN Clearing(Failed(f, mv.err, "failed to backup"), "rename")
                ELSE Clearing(installAt(mv.fs, src, dst, useSymlink, TRUE), "rename"))
         ELSE IF isSymlink
              THEN With(Remove(f, dst), LAMBDA rm :
                     IF rm.err # "nil"
                     THEN Clearing(Failed(f, rm.err, "failed to remove existing symlink"),
                                   "remove")
                     ELSE Clearing(installAt(rm.fs, src, dst, useSymlink, TRUE), "remove"))
              ELSE With(RemoveAll(f, dst), LAMBDA rm :
                     IF rm.err # "nil"
                     THEN Clearing(Failed(f, rm.err, "failed to remove existing directory"),
                                   "removeAll")
                     ELSE Clearing(installAt(rm.fs, src, dst, useSymlink, TRUE),
                                   "removeAll")))
    ELSE installAt(f, src, dst, useSymlink, TRUE))

\* importUnder that goes on to install the source after a failed removal
importUnder_ignoresRemoval(f, t, src, dst, useSymlink, useBackup, isDirectory, denied) ==
  With(Lstat(f, dst), LAMBDA info :
  With(IF info.err # "nil" THEN Done(f)
       ELSE IF useBackup /\ info.node.kind # "symlink"
       THEN With(IF "rename" \in denied THEN [fs |-> f, err |-> "EACCES"]
                 ELSE Rename(f, dst, backupPathOf(dst, t)), LAMBDA mv :
              Clearing(Failed(mv.fs, mv.err,
                              IF mv.err = "nil" THEN "" ELSE "failed to backup"), "rename"))
       ELSE IF ~isDirectory \/ info.node.kind = "symlink"
       THEN With(IF "remove" \in denied THEN [fs |-> f, err |-> "EACCES"]
                 ELSE Remove(f, dst), LAMBDA rm :
              Clearing(Done(rm.fs), "remove"))
       ELSE With(IF "remove" \in denied THEN [fs |-> f, err |-> "EACCES"]
                 ELSE IF "rmdir" \in denied
                 THEN [fs |-> Restrict(f, {q \in DOMAIN f :
                                             ~IsUnder(info.path, q) \/ q = info.path}),
                       err |-> "EACCES"]
                 ELSE RemoveAll(f, dst), LAMBDA rm :
              Clearing(Done(rm.fs), "removeAll")), LAMBDA c :
    IF c.err # "nil" THEN c
    ELSE With(IF "mkdir" \in denied /\ Stat(c.fs, Dir[dst]).err # "nil"
              THEN [fs |-> c.fs, err |-> "EACCES"]
              ELSE MkdirAll(c.fs, Dir[dst]), LAMBDA made :
      IF made.err # "nil"
      THEN Clearing(Failed(made.fs, made.err, "failed to create parent directory"), c.cleared)
      ELSE With(IF "install" \in denied THEN [fs |-> made.fs, err |-> "EACCES"]
                ELSE IF useSymlink THEN Symlink(made.fs, src, dst)
                ELSE IF isDirectory THEN copyDirectory(made.fs, src, dst)
                ELSE copyFile(made.fs, src, dst), LAMBDA r :
        Clearing(Failed(r.fs, r.err, ""), c.cleared)))))

\* importFile (isDirectory false) and importDirectory (isDirectory true) when
\* the system refuses some of their calls.  denied holds "rename" when
\* os.Rename is refused, "remove" when the removal of dst is refused before
\* anything is deleted, "rmdir" when os.RemoveAll empties the directory dst
\* and is then refused the removal of dst itself, "mkdir" when a missing
\* parent directory cannot be made, and "install" when os.Symlink or the
\* first call of the copy is refused
importUnder(f, t, src, dst, useSymlink, useBackup, isDirectory, denied) ==
  With(Lstat(f, dst), LAMBDA info :
  With(IF info.err # "nil" THEN Done(f)
       ELSE IF useBackup /\ info.node.kind # "symlink"
       THEN With(IF "rename" \in denied THEN [fs |-> f, err |-> "EACCES"]
                 ELSE Rename(f, dst, backupPathOf(dst, t)), LAMBDA mv :
              Clearing(Failed(mv.fs, mv.err,
                              IF mv.err = "nil" THEN "" ELSE "failed to backup"), "rename"))
       ELSE IF ~isDirectory \/ info.node.kind = "symlink"
       THEN With(IF "remove" \in denied THEN [fs |-> f, err |-> "EACCES"]
                 ELSE Remove(f, dst), LAMBDA rm :
              Clearing(Failed(rm.fs, rm.err,
                              IF rm.err = "nil" THEN ""
                              ELSE IF isDirectory THEN "failed to remove existing symlink"
                              ELSE "failed to remove existing file"), "remove"))
       ELSE With(IF "remove" \in denied THEN [fs |-> f, err |-> "EACCES"]
                 ELSE IF "rmdir" \in denied
                 THEN [fs |-> Restrict(f, {q \in DOMAIN f :
                                             ~IsUnder(info.path, q) \/ q = info.path}),
                       err |-> "EACCES"]
                 ELSE RemoveAll(f, dst), LAMBDA rm :
              Clearing(Failed(rm.fs, rm.err,
                              IF rm.err = "nil" THEN ""
                              ELSE "failed to remove existing directory"), "removeAll")),
       LAMBDA c :
    IF c.err # "nil" THEN c
    ELSE With(IF "mkdir" \in denied /\ Stat(c.fs, Dir[dst]).err # "nil"
              THEN [fs |-> c.fs, err |-> "EACCES"]
              ELSE MkdirAll(c.fs, Dir[dst]), LAMBDA made :
      IF made.err # "nil"
      THEN Clearing(Failed(made.fs, made.err, "failed to create parent directory"), c.cleared)
      ELSE With(IF "install" \in denied THEN [fs |-> made.fs, err |-> "EACCES"]
                ELSE IF useSymlink THEN Symlink(made.fs, src, dst)
                ELSE IF isDirectory THEN copyDirectory(made.fs, src, dst)
                ELSE copyFile(made.fs, src, dst), LAMBDA r :
        Clearing(Failed(r.fs, r.err, ""), c.cleared)))))

\* sort.Slice(backups, less) with less(i, j) = backups[i].Timestamp >
\* backups[j].Timestamp: x goes before the first element it is "less" than
\* the comparison of the sort turned round: oldest first
backupLess_ascending(x, y) == StrLess(x.Timestamp, y.Timestamp)

backupLess(x, y) == StrLess(y.Timestamp, x.Timestamp)

RECURSIVE InsertBackup(_, _)
InsertBackup(x, sorted) ==
  IF sorted = <<>> THEN <<x>>
  ELSE IF backupLess(x, Head(sorted)) THEN <<x>> \o sorted
  ELSE <<Head(sorted)>> \o InsertBackup(x, Tail(sorted))

RECURSIVE SortBackups(_)
SortBackups(backups) ==
  IF backups = <<>> THEN <<>>
  ELSE InsertBackup(Head(backups), SortBackups(Tail(backups)))

\* the loop of FindBackups over the directory entries
RECURSIVE matchingBackups(_, _, _, _)
matchingBackups(dir, filename, prefix, entries) ==
  IF entries = <<>> THEN <<>>
  ELSE LET name == Head(entries).name
           rest == matchingBackups(dir, filename, prefix, Tail(entries))
       IN IF HasPrefix(name, prefix)
          THEN <<[OriginalName |-> filename,
                  BackupPath |-> Join(dir, name),
                  Timestamp |-> TrimPrefix(name, prefix)]>> \o rest
          ELSE rest

FindBackups(f, dir, filename) ==
  With(filename \o BackupInfix, LAMBDA prefix : With(ReadDir(f, dir), LAMBDA rd :
    IF rd.err # "nil" THEN <<>>
    ELSE SortBackups(matchingBackups(dir, filename, prefix, rd.entries))))

NoBackup == [OriginalName |-> <<>>, BackupPath |-> <<>>, Timestamp |-> <<>>]

\* selectBackup that takes the last element for "latest"
selectBackup_last(backups, timestamp) ==
  IF Len(backups) = 0 THEN [backup |-> NoBackup, err |-> "no backups found", arg |-> <<>>]
  ELSE IF timestamp = Latest THEN [backup |-> backups[Len(backups)], err |-> "", arg |-> <<>>]
  ELSE LET hits == {i \in 1..Len(backups) : backups[i].Timestamp = timestamp} IN
       IF hits # {} THEN [backup |-> backups[Min(hits)], err |-> "", arg |-> <<>>]
       ELSE [backup |-> NoBackup, err |-> "no backup found with timestamp", arg |-> timestamp]

\* selectBackup that accepts an entry whose timestamp begins the selector
selectBackup_prefix(backups, timestamp) ==
  IF Len(backups) = 0 THEN [backup |-> NoBackup, err |-> "no backups found", arg |-> <<>>]
  ELSE IF timestamp = Latest THEN [backup |-> backups[1], err |-> "", arg |-> <<>>]
  ELSE LET hits == {i \in 1..Len(backups) : HasPrefix(timestamp, backups[i].Timestamp)} IN
       IF hits # {} THEN [backup |-> backups[Min(hits)], err |-> "", arg |-> <<>>]
       ELSE [backup |-> NoBackup, err |-> "no backup found with timestamp", arg |-> timestamp]

\* selectBackup: the error is "" on success, and otherwise names what was
\* not found
selectBackup(backups, timestamp) ==
  IF Len(backups) = 0 THEN [backup |-> NoBackup, err |-> "no backups found", arg |-> <<>>]
  ELSE IF timestamp = Latest THEN [backup |-> backups[1], err |-> "", arg |-> <<>>]
  ELSE LET hits == {i \in 1..Len(backups) : backups[i].Timestamp = timestamp} IN
       IF hits # {} THEN [backup |-> backups[Min(hits)], err |-> "", arg |-> <<>>]
       ELSE [backup |-> NoBackup, err |-> "no backup found with timestamp", arg |-> timestamp]

\* recoverFile that moves the current destination to a backup name of its
\* own instead of removing it
recoverFile_savesCurrent(f, backupPath, dst) ==
  With(Lstat(f, dst), LAMBDA info :
  With(IF info.err # "nil" THEN [fs |-> f, err |-> "nil"]
       ELSE Rename(f, dst, dst \o BackupInfix \o <<"0">>), LAMBDA rm :
    IF rm.err # "nil" THEN Failed(f, rm.err, "failed to remove current file")
    ELSE With(Rename(rm.fs, backupPath, dst), LAMBDA mv :
      IF mv.err # "nil" THEN Failed(rm.fs, mv.err, "failed to recover backup")
      ELSE Done(mv.fs))))

\* recoverFile that, once the backup is restored, deletes the backups of the
\* destination that are left
recoverFile_prunes(f, backupPath, dst) ==
  With(Lstat(f, dst), LAMBDA info :
  With(IF info.err # "nil" THEN [fs |-> f, err |-> "nil"]
       ELSE IF info.node.kind = "dir" THEN RemoveAll(f, dst)
       ELSE Remove(f, dst), LAMBDA rm :
    IF rm.err # "nil" THEN Failed(f, rm.err, "failed to remove current file")
    ELSE With(Rename(rm.fs, backupPath, dst), LAMBDA mv :
      IF mv.err # "nil" THEN Failed(rm.fs, mv.err, "failed to recover backup")
      ELSE With(FindBackups(mv.fs, Dir[dst], Elements[dst][Len(Elements[dst])]),
                LAMBDA left :
        Done(Restrict(mv.fs,
               {q \in DOMAIN mv.fs :
                  \A i \in 1..Len(left) :
                    ~IsUnder(Resolve(mv.fs, left[i].BackupPath, FALSE).path, q)}))))))

\* recoverFile that renames without removing the current destination first
recoverFile_noRemove(f, backupPath, dst) ==
  With(Rename(f, backupPath, dst), LAMBDA mv :
    IF mv.err # "nil" THEN Failed(f, mv.err, "failed to recover backup")
    ELSE Done(mv.fs))

\* recoverFile that copies the backup to the destination and keeps it
recoverFile_keepsBackup(f, backupPath, dst) ==
  With(Lstat(f, dst), LAMBDA info :
  With(IF info.err # "nil" THEN [fs |-> f, err |-> "nil"]
       ELSE IF info.node.kind = "dir" THEN RemoveAll(f, dst)
       ELSE Remove(f, dst), LAMBDA rm :
  With(Lstat(f, backupPath), LAMBDA from :
    IF rm.err # "nil" THEN Failed(f, rm.err, "failed to remove current file")
    ELSE IF from.err # "nil" THEN Failed(rm.fs, from.err, "failed to recover backup")
    ELSE Done(Plant(rm.fs, Resolve(rm.fs, dst, FALSE).path, TreeAt(f, from.path))))))

\* recoverFile that looks through a symbolic link at dst and removes the
\* directory it points at together with the link
recoverFile_followsLink(f, backupPath, dst) ==
  With(Lstat(f, dst), LAMBDA info :
  With(IF info.err # "nil" THEN [fs |-> f, err |-> "nil"]
       ELSE IF Stat(f, dst).err = "nil" /\ Stat(f, dst).node.kind = "dir"
            THEN [fs |-> RemoveTree(RemoveTree(f, Stat(f, dst).path), info.path),
                  err |-> "nil"]
       ELSE Remove(f, dst), LAMBDA rm :
    IF rm.err # "nil" THEN Failed(f, rm.err, "failed to remove current file")
    ELSE With(Rename(rm.fs, backupPath, dst), LAMBDA mv :
      IF mv.err # "nil" THEN Failed(rm.fs, mv.err, "failed to recover backup")
      ELSE Done(mv.fs))))

recoverFile(f, backupPath, dst) ==
  With(Lstat(f, dst), LAMBDA info :
  With(IF info.err # "nil" THEN [fs |-> f, err |-> "nil"]
       ELSE IF info.node.kind = "dir" THEN RemoveAll(f, dst)
       ELSE Remove(f, dst), LAMBDA rm :
    IF rm.err # "nil" THEN Failed(f, rm.err, "failed to remove current file")
    ELSE With(Rename(rm.fs, backupPath, dst), LAMBDA mv :
      IF mv.err # "nil" THEN Failed(rm.fs, mv.err, "failed to recover backup")
      ELSE Done(mv.fs))))

\* recoverFileUnder that wraps a failing rename like a failing removal
recoverFileUnder_sameTag(f, backupPath, dst, denied) ==
  With(Lstat(f, dst), LAMBDA info :
  With(IF info.err # "nil" THEN [fs |-> f, err |-> "nil"]
       ELSE IF "remove" \in denied THEN [fs |-> f, err |-> "EACCES"]
       ELSE IF info.node.kind = "dir" /\ "rmdir" \in denied
            THEN [fs |-> Restrict(f, {q \in DOMAIN f : ~IsUnder(info.path, q) \/ q = info.path}),
                  err |-> "EACCES"]
       ELSE IF info.node.kind = "dir" THEN RemoveAll(f, dst)
       ELSE Remove(f, dst), LAMBDA rm :
    IF rm.err # "nil" THEN Failed(rm.fs, rm.err, "failed to remove current file")
    ELSE With(IF "rename" \in denied THEN [fs |-> rm.fs, err |-> "EPERM"]
              ELSE Rename(rm.fs, backupPath, dst), LAMBDA mv :
      IF mv.err # "nil" THEN Failed(rm.fs, mv.err, "failed to remove current file")
      ELSE Done(mv.fs))))

\* recoverFile when the system refuses some of its calls.  denied holds
\* "remove" when the removal of dst is refused before anything is deleted,
\* "rmdir" when os.RemoveAll empties the directory dst and is then refused
\* the removal of dst itself, and "rename" when os.Rename is refused
\* recoverFileUnder that looks for the backup before it removes anything
recoverFileUnder_checksBackup(f, backupPath, dst, denied) ==
  With(Lstat(f, backupPath), LAMBDA bk :
    IF bk.err # "nil" THEN Failed(f, bk.err, "failed to recover backup")
    ELSE With(Lstat(f, dst), LAMBDA info :
         With(IF info.err # "nil" THEN [fs |-> f, err |-> "nil"]
              ELSE IF "remove" \in denied THEN [fs |-> f, err |-> "EACCES"]
              ELSE IF info.node.kind = "dir" THEN RemoveAll(f, dst)
              ELSE Remove(f, dst), LAMBDA rm :
           IF rm.err # "nil" THEN Failed(rm.fs, rm.err, "failed to remove current file")
           ELSE With(IF "rename" \in denied THEN [fs |-> rm.fs, err |-> "EPERM"]
                     ELSE Rename(rm.fs, backupPath, dst), LAMBDA mv :
             IF mv.err # "nil" THEN Failed(rm.fs, mv.err, "failed to recover backup")
             ELSE Done(mv.fs)))))

recoverFileUnder(f, backupPath, dst, denied) ==
  With(Lstat(f, dst), LAMBDA info :
  With(IF info.err # "nil" THEN [fs |-> f, err |-> "nil"]
       ELSE IF "remove" \in denied THEN [fs |-> f, err |-> "EACCES"]
       ELSE IF info.node.kind = "dir" /\ "rmdir" \in denied
            THEN [fs |-> Restrict(f, {q \in DOMAIN f : ~IsUnder(info.path, q) \/ q = info.path}),
                  err |-> "EACCES"]
       ELSE IF info.node.kind = "dir" THEN RemoveAll(f, dst)
       ELSE Remove(f, dst), LAMBDA rm :
    IF rm.err # "nil" THEN Failed(rm.fs, rm.err, "failed to remove current file")
    ELSE With(IF "rename" \in denied THEN [fs |-> rm.fs, err |-> "EPERM"]
              ELSE Rename(rm.fs, backupPath, dst), LAMBDA mv :
      IF mv.err # "nil" THEN Failed(rm.fs, mv.err, "failed to recover backup")
      ELSE Done(mv.fs))))

(***************************************************************************)
(* Import: the batch over the configured files and directories.            *)
(***************************************************************************)
\* the dry-run branch without the test for a symbolic link
dryRunAction_ignoresLink(f, dst, useSymlink, useBackup) ==
  With(Lstat(f, dst), LAMBDA info :
    IF info.err = "nil"
    THEN IF useBackup THEN <<"backup &", methodName(useSymlink)>>
         ELSE <<"overwrite", methodName(useSymlink)>>
    ELSE <<methodName(useSymlink)>>)

\* the dry-run branch of Import: the action it prints for a mapping
dryRunAction(f, dst, useSymlink, useBackup) ==
  With(Lstat(f, dst), LAMBDA info :
    IF info.err = "nil"
    THEN IF info.node.kind = "symlink"
         THEN <<"replace symlink", methodName(useSymlink)>>
         ELSE IF useBackup THEN <<"backup &", methodName(useSymlink)>>
         ELSE <<"overwrite", methodName(useSymlink)>>
    ELSE <<methodName(useSymlink)>>)

\* an ImportResult, with the mapping's paths and the filesystem before and
\* after the mapping was processed
Result(file, src, dst, f) ==
  [File |-> file, Action |-> <<>>, Success |-> FALSE, Error |-> "nil", Msg |-> "",
   Skipped |-> FALSE, src |-> src, dst |-> dst, before |-> f, after |-> f,
   cleared |-> "none"]

\* the state of a running batch
Batch(f) == [fs |-> f, results |-> <<>>, hasErrors |-> FALSE, ret |-> "nil"]

\* the loop body with the dry-run branch left out
importOne_alwaysApplies(b, t, opts, result, isDirectory, retMsg) ==
  With(IF isDirectory
       THEN importDirectory(b.fs, t, result.src, result.dst, opts.Symlink, opts.Backup)
       ELSE importFile(b.fs, t, result.src, result.dst, opts.Symlink, opts.Backup),
       LAMBDA r :
    IF r.err # "nil"
    THEN IF ~opts.Continue
         THEN [b EXCEPT !.fs = r.fs, !.hasErrors = TRUE, !.ret = retMsg]
         ELSE [b EXCEPT !.fs = r.fs, !.hasErrors = TRUE,
                        !.results = Append(@, [result EXCEPT !.Error = r.err,
                                                 !.Msg = r.msg, !.after = r.fs,
                                                 !.cleared = r.cleared])]
    ELSE [b EXCEPT !.fs = r.fs,
                   !.results = Append(@, [result EXCEPT
                      !.Success = TRUE, !.Action = <<methodName(opts.Symlink)>>,
                      !.after = r.fs, !.cleared = r.cleared])])

\* the loop body of a batch that, stopping at a failure, puts the filesystem
\* back as it was before the first mapping
importOne_rollsBack(b, t, opts, result, isDirectory, retMsg) ==
  IF opts.DryRun
  THEN [b EXCEPT !.results = Append(@, [result EXCEPT
          !.Action = dryRunAction(b.fs, result.dst, opts.Symlink, opts.Backup)])]
  ELSE With(IF isDirectory
            THEN importDirectory(b.fs, t, result.src, result.dst, opts.Symlink, opts.Backup)
            ELSE importFile(b.fs, t, result.src, result.dst, opts.Symlink, opts.Backup),
            LAMBDA r :
      IF r.err # "nil"
      THEN IF ~opts.Continue
           THEN [b EXCEPT !.fs = IF b.results = <<>> THEN r.fs ELSE b.results[1].before,
                          !.hasErrors = TRUE, !.ret = retMsg]
           ELSE [b EXCEPT !.fs = r.fs, !.hasErrors = TRUE,
                          !.results = Append(@, [result EXCEPT !.Error = r.err,
                                                   !.Msg = r.msg, !.after = r.fs,
                                                   !.cleared = r.cleared])]
      ELSE [b EXCEPT !.fs = r.fs,
                     !.results = Append(@, [result EXCEPT
                        !.Success = TRUE, !.Action = <<methodName(opts.Symlink)>>,
                        !.after = r.fs, !.cleared = r.cleared])])

\* the body of both loops of Import once the source has been accepted
importOne(b, t, opts, result, isDirectory, retMsg) ==
  IF opts.DryRun
  THEN [b EXCEPT !.results = Append(@, [result EXCEPT
          !.Action = dryRunAction(b.fs, result.dst, opts.Symlink, opts.Backup)])]
  ELSE With(IF isDirectory
            THEN importDirectory(b.fs, t, result.src, result.dst, opts.Symlink, opts.Backup)
            ELSE importFile(b.fs, t, result.src, result.dst, opts.Symlink, opts.Backup),
            LAMBDA r :
      IF r.err # "nil"
      THEN IF ~opts.Continue
           THEN [b EXCEPT !.fs = r.fs, !.hasErrors = TRUE, !.ret = retMsg]
           ELSE [b EXCEPT !.fs = r.fs, !.hasErrors = TRUE,
                          !.results = Append(@, [result EXCEPT !.Error = r.err,
                                                   !.Msg = r.msg, !.after = r.fs,
                                                   !.cleared = r.cleared])]
      ELSE [b EXCEPT !.fs = r.fs,
                     !.results = Append(@, [result EXCEPT
                        !.Success = TRUE, !.Action = <<methodName(opts.Symlink)>>,
                        !.after = r.fs, !.cleared = r.cleared])])

Skip(b, result, why) ==
  [b EXCEPT !.results = Append(@, [result EXCEPT !.Skipped = TRUE, !.Action = <<why>>])]

RECURSIVE importFiles(_, _, _, _, _)
importFiles(b, t, opts, sourceDir, files) ==
  IF files = <<>> \/ b.ret # "nil" THEN b
  ELSE With(Head(files), LAMBDA file :
       With(Join(sourceDir, file), LAMBDA src :
       With(Join(HomeDir, file), LAMBDA dst :
       With(Result(file, src, dst, b.fs), LAMBDA result :
       With(IF IsNotExist(Stat(b.fs, src).err)
            THEN Skip(b, result, "skip (not found in repo)")
            ELSE importOne(b, t, opts, result, FALSE, "failed to import"), LAMBDA b2 :
         importFiles(b2, t, opts, sourceDir, Tail(files)))))))

\* srcInfo.IsDir() on the nil srcInfo that os.Stat returns with an error
\* other than "not exist" stops the program: ret = "panic"
RECURSIVE importDirectories(_, _, _, _, _)
importDirectories(b, t, opts, localPath, dirs) ==
  IF dirs = <<>> \/ b.ret # "nil" THEN b
  ELSE With(Head(dirs), LAMBDA dirMap :
       With(Join(localPath, dirMap.Source), LAMBDA src :
       With(expandTilde(Join(HomeDir, dirMap.Target)), LAMBDA dst :
       With(Result(dirMap.Source \o <<" ", "-", ">", " ">> \o dirMap.Target,
                   src, dst, b.fs), LAMBDA result :
       With(Stat(b.fs, src), LAMBDA srcInfo :
       With(IF IsNotExist(srcInfo.err)
            THEN Skip(b, result, "skip (not found in repo)")
            ELSE IF srcInfo.err # "nil" THEN [b EXCEPT !.ret = "panic"]
            ELSE IF srcInfo.node.kind # "dir"
                 THEN Skip(b, result, "skip (not a directory)")
            ELSE importOne(b, t, opts, result, TRUE, "failed to import directory"),
            LAMBDA b2 :
         importDirectories(b2, t, opts, localPath, Tail(dirs))))))))

Import(f, t, cfg, opts) ==
  With(expandTilde(cfg.LocalPath), LAMBDA localPath :
  With(IF cfg.SourceDir # <<>> THEN Join(localPath, cfg.SourceDir) ELSE localPath,
       LAMBDA sourceDir :
  With(IF Len(opts.Files) = 0 THEN cfg.Files ELSE opts.Files, LAMBDA files :
    IF IsNotExist(Stat(f, localPath).err)
    THEN [Batch(f) EXCEPT !.ret = "dotfiles repository not found"]
    ELSE importDirectories(importFiles(Batch(f), t, opts, sourceDir, files),
                           t, opts, localPath, cfg.Directories))))

(***************************************************************************)
(* Backup: the recovery batch.                                             *)
(***************************************************************************)
\* the body of both loops of Backup; name is the configured file name or
\* directory target
recoverOne(b, opts, name, dst) ==
  With(FindBackups(b.fs, HomeDir, name), LAMBDA backups :
  With(selectBackup(backups, opts.Timestamp), LAMBDA sel :
  With([File |-> name, dst |-> dst, backups |-> backups, before |-> b.fs,
        after |-> b.fs, status |-> "", backup |-> sel.backup, Error |-> "nil"],
       LAMBDA entry :
    IF Len(backups) = 0
    THEN [b EXCEPT !.results = Append(@, [entry EXCEPT !.status = "skip (no backup found)"])]
    ELSE IF sel.err # ""
         THEN [b EXCEPT !.results = Append(@, [entry EXCEPT !.status = sel.err])]
    ELSE IF opts.DryRun
         THEN [b EXCEPT !.results = Append(@, [entry EXCEPT !.status = "recover"])]
    ELSE With(recoverFile(b.fs, sel.backup.BackupPath, dst), LAMBDA r :
      IF r.err # "nil"
      THEN [b EXCEPT !.fs = r.fs, !.hasErrors = TRUE,
                     !.ret = IF opts.Continue THEN "nil" ELSE "failed to recover",
                     !.results = Append(@, [entry EXCEPT !.status = "error",
                                              !.after = r.fs, !.Error = r.err])]
      ELSE [b EXCEPT !.fs = r.fs,
                     !.results = Append(@, [entry EXCEPT !.status = "ok",
                                              !.after = r.fs])]))))

RECURSIVE recoverFiles(_, _, _)
recoverFiles(b, opts, files) ==
  IF files = <<>> \/ b.ret # "nil" THEN b
  ELSE recoverFiles(recoverOne(b, opts, Head(files), Join(HomeDir, Head(files))),
                    opts, Tail(files))

RECURSIVE recoverDirectories(_, _, _)
recoverDirectories(b, opts, dirs) ==
  IF dirs = <<>> \/ b.ret # "nil" THEN b
  ELSE recoverDirectories(
         recoverOne(b, opts, Head(dirs).Target, expandTilde(Join(HomeDir, Head(dirs).Target))),
         opts, Tail(dirs))

\* Backup that hands the requested timestamp to selectBackup as it is
Backup_literalTimestamp(f, cfg, opts) ==
  recoverDirectories(recoverFiles(Batch(f), opts, cfg.Files), opts, cfg.Directories)

Backup(f, cfg, opts) ==
  With(IF opts.Timestamp = <<>> THEN [opts EXCEPT !.Timestamp = Latest] ELSE opts,
       LAMBDA o :
    recoverDirectories(recoverFiles(Batch(f), o, cfg.Files), o, cfg.Directories))

(***************************************************************************)
(* The filesystems, configurations and arguments the model starts from.    *)
(***************************************************************************)
\* the string of an absolute path, from its elements
Str(elems) == Slash \o Unsplit(elems)

eh == <<"h">>
er == <<"r">>
ea == <<"a">>
eb == <<"b">>
ec == <<"c">>
ed == <<"d">>
en == <<"n">>
es == <<"s">>
ex == <<"x">>
ey == <<"y">>

\* the repository, cloned to ~/r: a file a, a file c, a directory d with a
\* file and a sub-directory; there is no b
RepoTree ==
  (<<>> :> DirNode) @@ (<<ea>> :> FileNode("A")) @@ (<<ec>> :> FileNode("C"))
  @@ (<<ed>> :> DirNode) @@ (<<ed, ex>> :> FileNode("X"))
  @@ (<<ed, es>> :> DirNode) @@ (<<ed, es, ey>> :> FileNode("Y"))

RepoRoot == <<eh, er>>

BaseFs == Plant((<<>> :> DirNode) @@ (<<eh>> :> DirNode), RepoRoot, RepoTree)

\* what may be found at the destination ~/a before the first call: nothing,
\* the user's own file or directory, or a link left by an earlier import
OldFile == <<>> :> FileNode("old")
OldDir == (<<>> :> DirNode) @@ (<<es>> :> FileNode("mine"))
Nothing == <<>> :> NoNode

StartTrees ==
  {Nothing, OldFile, OldDir, <<>> :> LinkNode(Str(<<eh, er, ed>>)),
   <<>> :> LinkNode(Str(<<eh, er, ea>>))}

PlantIf(f, p, t) == IF t = Nothing THEN f ELSE Plant(f, p, t)

\* a backup of ~/a that an import of the second before StartClock left
EarlierBackup == ea \o BackupInfix \o FormatTime(StartClock - 1)

StartFilesystems ==
  {PlantIf(PlantIf(BaseFs, <<eh, ea>>, ta), <<eh, EarlierBackup>>, tb) :
     ta \in StartTrees, tb \in {Nothing, <<>> :> FileNode("older")}}

\* [dotfiles] of ~/.goodbye.toml
Config(files, dirs) ==
  [LocalPath |-> Tilde \o Str(<<er>>), SourceDir |-> <<>>, Files |-> files,
   Directories |-> dirs]

DirectoryMap(source, target) == [Source |-> source, Target |-> target]

Configs ==
  {Config(<<eb, ea>>, <<>>),
   Config(<<>>, <<DirectoryMap(ed, ea), DirectoryMap(ed, Unsplit(<<ea, es>>))>>),
   Config(<<Unsplit(<<ec, en>>)>>, <<DirectoryMap(ea, ea), DirectoryMap(eb, ea)>>),
   Config(<<ed, ea>>, <<DirectoryMap(Unsplit(<<ec, en>>), ea)>>)}

FileSources == {Str(<<eh, er, ea>>)}
DirectorySources == {Str(<<eh, er, ed>>)}
Destinations == {Str(<<eh, ea>>), Str(<<eh, ea, es>>)}
Clock == (StartClock - 1)..(StartClock + MaxTicks)
Selectors == {<<>>, Latest, FormatTime(StartClock)}

(***************************************************************************)
(* The calls.  last records the call, the filesystem before it (pre), its  *)
(* result, and a summary of the call before it (prev).                     *)
(***************************************************************************)
Summary(l) ==
  IF l.op \in {"importFile", "importDirectory"}
  THEN [op |-> l.op, dst |-> l.arg.dst, useSymlink |-> l.arg.useSymlink,
        useBackup |-> l.arg.useBackup, t |-> l.arg.t, err |-> l.res.err,
        backedUp |-> l.res.cleared = "rename" /\ l.res.msg # "failed to backup",
        was |-> TreeAt(l.pre, Resolve(l.pre, l.arg.dst, FALSE).path)]
  ELSE IF l.op = "recoverFile"
  THEN [op |-> l.op, dst |-> l.arg.dst, backupPath |-> l.arg.backupPath, err |-> l.res.err]
  ELSE [op |-> l.op]

Call(op, arg, res) ==
  [op |-> op, arg |-> arg, pre |-> fs, res |-> res, prev |-> Summary(last)]

Init ==
  /\ fs \in StartFilesystems
  /\ now = StartClock
  /\ calls = 0
  /\ last = [op |-> "none"]

\* a second passes
Tick ==
  /\ now < StartClock + MaxTicks
  /\ now' = now + 1
  /\ UNCHANGED <<fs, last, calls>>

DeployFile(src, dst, useSymlink, useBackup) ==
  /\ calls < MaxOps
  /\ last' = Call("importFile",
                  [src |-> src, dst |-> dst, useSymlink |-> useSymlink,
                   useBackup |-> useBackup, t |-> now],
                  importFile(fs, now, src, dst, useSymlink, useBackup))
  /\ fs' = last'.res.fs
  /\ calls' = calls + 1
  /\ UNCHANGED now

DeployDirectory(src, dst, useSymlink, useBackup) ==
  /\ calls < MaxOps
  /\ last' = Call("importDirectory",
                  [src |-> src, dst |-> dst, useSymlink |-> useSymlink,
                   useBackup |-> useBackup, t |-> now],
                  importDirectory(fs, now, src, dst, useSymlink, useBackup))
  /\ fs' = last'.res.fs
  /\ calls' = calls + 1
  /\ UNCHANGED now

\* backupPath carries the stamp of a second that has come
Recover(backupPath, dst) ==
  /\ calls < MaxOps
  /\ \E t \in (StartClock - 1)..now : backupPath = backupPathOf(dst, t)
  /\ last' = Call("recoverFile", [backupPath |-> backupPath, dst |-> dst],
                  recoverFile(fs, backupPath, dst))
  /\ fs' = last'.res.fs
  /\ calls' = calls + 1
  /\ UNCHANGED now

Next ==
  \/ Tick
  \/ \E src \in FileSources, dst \in Destinations, useSymlink, useBackup \in BOOLEAN :
       DeployFile(src, dst, useSymlink, useBackup)
  \/ \E src \in DirectorySources, dst \in Destinations, useSymlink, useBackup \in BOOLEAN :
       DeployDirectory(src, dst, useSymlink, useBackup)
  \/ \E dst \in Destinations, t \in Clock : Recover(backupPathOf(dst, t), dst)

Spec == Init /\ [][Next]_vars

(***************************************************************************)
(* The batches: Import and Backup over a configuration.                    *)
(***************************************************************************)
ImportCall(cfg, opts) ==
  /\ calls < MaxBatches
  /\ last' = Call("Import", [cfg |-> cfg, opts |-> opts, t |-> now],
                  Import(fs, now, cfg, opts))
  /\ fs' = last'.res.fs
  /\ calls' = calls + 1
  /\ UNCHANGED now

BackupCall(cfg, opts) ==
  /\ calls < MaxBatches
  /\ last' = Call("Backup", [cfg |-> cfg, opts |-> opts], Backup(fs, cfg, opts))
  /\ fs' = last'.res.fs
  /\ calls' = calls + 1
  /\ UNCHANGED now

ImportOptions ==
  [DryRun : BOOLEAN, Symlink : BOOLEAN, Backup : BOOLEAN, Files : {<<>>},
   Continue : BOOLEAN]

BackupOptions == [DryRun : BOOLEAN, Timestamp : Selectors, Continue : BOOLEAN]

NextBatch ==
  \/ Tick
  \/ \E cfg \in Configs, opts \in ImportOptions : ImportCall(cfg, opts)
  \/ \E cfg \in Configs, opts \in BackupOptions : BackupCall(cfg, opts)

SpecBatch == Init /\ [][NextBatch]_vars

\* the ways local_path is written in ~/.goodbye.toml: with a tilde, as an
\* absolute path, and relative to the directory goodbye is started in
PathConfigs ==
  {[Config(<<ec>>, <<DirectoryMap(ed, Unsplit(<<ea, es>>))>>) EXCEPT !.LocalPath = lp] :
     lp \in {Tilde \o Str(<<er>>), Str(<<eh, er>>), er}}
  \cup {Config(<<ec>>, <<DirectoryMap(ed, ec), DirectoryMap(ed, Unsplit(<<ea, es>>))>>)}

NextPaths ==
  \/ Tick
  \/ \E cfg \in PathConfigs, opts \in ImportOptions : ImportCall(cfg, opts)

SpecPaths == Init /\ [][NextPaths]_vars

(***************************************************************************)
(* The command "import dotfiles": the configuration of ~/.goodbye.toml     *)
(* merged over the defaults, the flags, and the Import they lead to.       *)
(* The [dotfiles] table of the file is a record of the keys it sets.       *)
(***************************************************************************)
NoFile == [missing |-> TRUE]

DefaultConfig ==
  [Repository |-> <<>>,
   LocalPath |-> <<"~", "/", ".", "d", "o", "t", "f", "i", "l", "e", "s">>,
   SourceDir |-> <<>>,
   Files |-> << <<".", "z", "s", "h", "r", "c">>, <<".", "b", "a", "s", "h", "r", "c">>,
               <<".", "b", "a", "s", "h", "_", "p", "r", "o", "f", "i", "l", "e">>,
               <<".", "v", "i", "m", "r", "c">>,
               <<".", "g", "i", "t", "c", "o", "n", "f", "i", "g">>,
               <<".", "t", "m", "u", "x", ".", "c", "o", "n", "f">> >>,
   Directories |-> <<>>,
   Symlink |-> TRUE,
   Backup |-> TRUE]

\* the [dotfiles] part of mergeConfig
mergeConfig(defaults, user) ==
  LET hasDotfilesSection ==
        \/ user.Repository # <<>> \/ user.LocalPath # <<>> \/ user.SourceDir # <<>>
        \/ Len(user.Files) > 0 \/ Len(user.Directories) > 0
  IN  [Repository |-> IF user.Repository # <<>> THEN user.Repository ELSE defaults.Repository,
       LocalPath |-> IF user.LocalPath # <<>> THEN user.LocalPath ELSE defaults.LocalPath,
       SourceDir |-> IF user.SourceDir # <<>> THEN user.SourceDir ELSE defaults.SourceDir,
       Files |-> IF Len(user.Files) > 0 THEN user.Files ELSE defaults.Files,
       Directories |-> IF Len(user.Directories) > 0 THEN user.Directories
                       ELSE defaults.Directories,
       Symlink |-> IF hasDotfilesSection THEN user.Symlink ELSE defaults.Symlink,
       Backup |-> IF hasDotfilesSection THEN user.Backup ELSE defaults.Backup]

\* config.Load: toml.DecodeFile leaves the fields of the keys that the file
\* does not set at their zero values
Load(toml) ==
  IF toml = NoFile THEN DefaultConfig
  ELSE mergeConfig(DefaultConfig,
         [Repository |-> <<>>,
          LocalPath |-> IF "local_path" \in DOMAIN toml THEN toml.local_path ELSE <<>>,
          SourceDir |-> <<>>,
          Files |-> IF "files" \in DOMAIN toml THEN toml.files ELSE <<>>,
          Directories |-> <<>>,
          Symlink |-> IF "symlink" \in DOMAIN toml THEN toml.symlink ELSE FALSE,
          Backup |-> IF "backup" \in DOMAIN toml THEN toml.backup ELSE FALSE])

\* runImportDotfiles: the configuration, the options it builds from the
\* configuration and the flags, and the result of Import
runImportDotfiles(f, t, toml, flags) ==
  With(Load(toml), LAMBDA cfg :
  With([DryRun |-> ~flags.apply,
        Symlink |-> IF flags.copy THEN FALSE ELSE cfg.Symlink,
        Backup |-> IF flags.noBackup THEN FALSE ELSE cfg.Backup,
        Files |-> cfg.Files,
        Continue |-> flags.continue], LAMBDA opts :
  With(Import(f, t, cfg, opts), LAMBDA b :
    [fs |-> b.fs, results |-> b.results, hasErrors |-> b.hasErrors, ret |-> b.ret,
     cfg |-> cfg, opts |-> opts])))

\* the [dotfiles] tables of ~/.goodbye.toml: each key set or left out
TomlFiles ==
  {NoFile} \cup
  {Restrict([local_path |-> Tilde \o Str(<<er>>), files |-> <<ea>>,
             symlink |-> sy, backup |-> bk], keys) :
     sy, bk \in BOOLEAN,
     keys \in SUBSET {"local_path", "files", "symlink", "backup"}}

RunImportDotfiles(toml, flags) ==
  /\ calls < MaxBatches
  /\ last' = Call("runImportDotfiles", [toml |-> toml, flags |-> flags, t |-> now],
                  runImportDotfiles(fs, now, toml, flags))
  /\ fs' = last'.res.fs
  /\ calls' = calls + 1
  /\ UNCHANGED now

NextConfig ==
  \/ Tick
  \/ \E toml \in TomlFiles,
        flags \in [apply : BOOLEAN, copy : BOOLEAN, noBackup : BOOLEAN, continue : {FALSE}] :
       RunImportDotfiles(toml, flags)

SpecConfig == Init /\ [][NextConfig]_vars

(***************************************************************************)
(* Recovery on a system that refuses calls.                                *)
(***************************************************************************)
Denials == SUBSET {"remove", "rmdir", "rename"}

RecoverUnder(backupPath, dst, denied) ==
  /\ calls < MaxOps
  /\ \E t \in (StartClock - 1)..now : backupPath = backupPathOf(dst, t)
  /\ last' = Call("recoverFile",
                  [backupPath |-> backupPath, dst |-> dst, denied |-> denied],
                  recoverFileUnder(fs, backupPath, dst, denied))
  /\ fs' = last'.res.fs
  /\ calls' = calls + 1
  /\ UNCHANGED now

NextFaults ==
  \/ Tick
  \/ \E dst \in Destinations, t \in Clock, denied \in Denials :
       RecoverUnder(backupPathOf(dst, t), dst, denied)

SpecFaults == Init /\ [][NextFaults]_vars

\* what the system refuses during one deploy
DeployDenials == {{}, {"rename"}, {"remove"}, {"rmdir"}, {"mkdir"}, {"install"}}

DeployUnder(src, dst, useSymlink, useBackup, isDirectory, denied) ==
  /\ calls < MaxBatches
  /\ last' = Call(IF isDirectory THEN "importDirectory" ELSE "importFile",
                  [src |-> src, dst |-> dst, useSymlink |-> useSymlink,
                   useBackup |-> useBackup, t |-> now, denied |-> denied],
                  importUnder(fs, now, src, dst, useSymlink, useBackup, isDirectory, denied))
  /\ fs' = last'.res.fs
  /\ calls' = calls + 1
  /\ UNCHANGED now

NextDeployFaults ==
  \/ Tick
  \/ \E dst \in Destinations, useSymlink, useBackup \in BOOLEAN, denied \in DeployDenials :
       \/ \E src \in FileSources : DeployUnder(src, dst, useSymlink, useBackup, FALSE, denied)
       \/ \E src \in DirectorySources :
            DeployUnder(src, dst, useSymlink, useBackup, TRUE, denied)

SpecDeployFaults == Init /\ [][NextDeployFaults]_vars

(***************************************************************************)
(* Deploys with backup enabled, one destination, each call in a second of  *)
(* its own.  displaced collects what the calls found at the destination    *)
(* that was not a symbolic link, with the backup name of the call's second.*)
(***************************************************************************)
DeployStamped(src, dst, useSymlink, isDirectory) ==
  /\ calls < MaxOps
  /\ IF last.op = "none" THEN TRUE ELSE last.arg.dst = dst /\ last.arg.t < now
  /\ last' = Call(IF isDirectory THEN "importDirectory" ELSE "importFile",
                  [src |-> src, dst |-> dst, useSymlink |-> useSymlink,
                   useBackup |-> TRUE, t |-> now],
                  IF isDirectory THEN importDirectory(fs, now, src, dst, useSymlink, TRUE)
                  ELSE importFile(fs, now, src, dst, useSymlink, TRUE))
               @@ [displaced |->
                     (IF last.op = "none" THEN {} ELSE last.displaced)
                     \cup (IF Lstat(fs, dst).err = "nil" /\ Lstat(fs, dst).node.kind # "symlink"
                           THEN {[at |-> backupPathOf(dst, now),
                                  tree |-> TreeAt(fs, Lstat(fs, dst).path)]}
                           ELSE {})]
  /\ fs' = last'.res.fs
  /\ calls' = calls + 1
  /\ UNCHANGED now

NextStamped ==
  \/ Tick
  \/ \E dst \in Destinations, useSymlink \in BOOLEAN :
       \/ \E src \in FileSources : DeployStamped(src, dst, useSymlink, FALSE)
       \/ \E src \in DirectorySources : DeployStamped(src, dst, useSymlink, TRUE)

SpecStamped == Init /\ [][NextStamped]_vars


(***************************************************************************)
(* The backup registry: FindBackups and selectBackup over the listings a   *)
(* home directory may have.                                                *)
(***************************************************************************)
TsJan01 == <<"2", "0", "2", "6", "0", "1", "0", "1", "1", "2", "0", "0", "0", "0">>
TsJan10 == <<"2", "0", "2", "6", "0", "1", "1", "0", "1", "0", "0", "0", "0", "0">>
TsFeb15 == <<"2", "0", "2", "6", "0", "2", "1", "5", "0", "7", "1", "0", "4", "5">>
TsNines == <<"9", "9", "9", "9", "9", "9", "9", "9", "9", "9", "9", "9", "9", "9">>

\* entries that may lie in the home directory: backups of a (one of them of
\* a directory, one with a token that is no timestamp), a backup of b, and
\* a itself
ListingPool ==
  {<<ea \o BackupInfix \o TsJan01, OldFile>>,
   <<ea \o BackupInfix \o TsFeb15, OldFile>>,
   <<ea \o BackupInfix \o TsJan10, OldDir>>,
   <<ea \o BackupInfix \o <<"9">>, OldFile>>,
   <<eb \o BackupInfix \o TsJan01, OldFile>>,
   <<ea, OldFile>>}

RECURSIVE PlantAll(_, _, _)
PlantAll(f, dir, S) ==
  IF S = {} THEN f
  ELSE LET e == CHOOSE x \in S : TRUE IN
       PlantAll(Plant(f, Append(dir, e[1]), e[2]), dir, S \ {e})

\* the home directory also has a directory c that holds a backup of a
ListingBase ==
  (<<>> :> DirNode) @@ (<<eh>> :> DirNode) @@ (<<eh, ec>> :> DirNode)
  @@ (<<eh, ec, ea \o BackupInfix \o TsJan01>> :> FileNode("old"))

ListingFilesystems == {PlantAll(ListingBase, <<eh>>, S) : S \in SUBSET ListingPool}

LookupDirs == {HomeDir, Str(<<eh, ec>>), Str(<<eh, ea>>), Str(<<eh, ed>>)}
LookupNames == {ea, eb, Unsplit(<<ec, ea>>)}
LookupSelectors == {Latest, TsJan10, TsFeb15, TsNines}

InitRegistry ==
  /\ fs \in ListingFilesystems
  /\ now = StartClock
  /\ calls = 0
  /\ last = [op |-> "none"]

FindBackupsCall(dir, filename) ==
  /\ last' = Call("FindBackups", [dir |-> dir, filename |-> filename],
                  FindBackups(fs, dir, filename))
  /\ UNCHANGED <<fs, now, calls>>

\* selectBackup is called with the list that FindBackups returned
SelectBackupCall(timestamp) ==
  /\ last.op = "FindBackups"
  /\ last' = Call("selectBackup", [backups |-> last.res, timestamp |-> timestamp],
                  selectBackup(last.res, timestamp))
  /\ UNCHANGED <<fs, now, calls>>

NextRegistry ==
  \/ \E dir \in LookupDirs, filename \in LookupNames : FindBackupsCall(dir, filename)
  \/ \E timestamp \in LookupSelectors : SelectBackupCall(timestamp)

SpecRegistry == InitRegistry /\ [][NextRegistry]_vars

(***************************************************************************)
(* Properties.                                                             *)
(***************************************************************************)
Deploys == {"importFile", "importDirectory"}

\* filepath.Base: the last element of a path
BaseOf(s) == LET e == Elements[s] IN e[Len(e)]

\* the place of the entry that the path s names in f
Place(f, s) == Resolve(f, s, FALSE).path

IsLink(f, s) == Lstat(f, s).err = "nil" /\ Lstat(f, s).node.kind = "symlink"
IsPlain(f, s) == Lstat(f, s).err = "nil" /\ Lstat(f, s).node.kind # "symlink"

\* the backup entries of the destination dst: the entries beside it whose
\* name is <name of dst>.backup.<anything>, each with all it holds
BackupEntries(f, dst) ==
  LET d == Stat(f, Dir[dst]) IN
  IF d.err # "nil" THEN {}
  ELSE {q \in DOMAIN f : /\ Len(q) = Len(d.path) + 1
                         /\ IsUnder(d.path, q)
                         /\ HasPrefix(q[Len(q)], BaseOf(dst) \o BackupInfix)}

BackupSnapshot(f, dst) == [q \in BackupEntries(f, dst) |-> TreeAt(f, q)]

\* the action that an apply-mode deploy performed on its destination, from
\* the system call it issued there and the kind of entry it found
PerformedAction(r, useSymlink) ==
  IF r.cleared = "rename" THEN <<"backup &", methodName(useSymlink)>>
  ELSE IF r.cleared \in {"remove", "removeAll"}
       THEN IF IsLink(r.before, r.dst) THEN <<"replace symlink", methodName(useSymlink)>>
            ELSE <<"overwrite", methodName(useSymlink)>>
  ELSE <<methodName(useSymlink)>>

Processed(r) == ~r.Skipped

C2_DryRunMutatesNothing ==
  (last.op \in {"Import", "Backup"} /\ last.arg.opts.DryRun) => fs = last.pre

\* a dry-run Import announced a backup of an existing plain destination
C2_Witness ==
  /\ last.op = "Import" /\ last.arg.opts.DryRun
  /\ \E i \in 1..Len(last.res.results) :
       last.res.results[i].Action = <<"backup &", methodName(last.arg.opts.Symlink)>>

\* a dry-run Backup announced the recovery of an existing backup
C2_WitnessBackup ==
  /\ last.op = "Backup" /\ last.arg.opts.DryRun
  /\ \E i \in 1..Len(last.res.results) : last.res.results[i].status = "recover"

\* C3: a deploy whose destination is a symbolic link removes the link with
\* one remove call, whatever the method and the backup flag, and the backup
\* entries of the destination are the same before and after the call
C3_SymlinkNeverBackedUp ==
  (last.op \in Deploys /\ IsLink(last.pre, last.arg.dst)) =>
    /\ last.res.cleared = "remove"
    /\ last.res.msg \notin {"failed to remove existing file",
                            "failed to remove existing symlink"}
    /\ (~last.arg.useSymlink => ~IsLink(fs, last.arg.dst))
    /\ BackupSnapshot(fs, last.arg.dst) = BackupSnapshot(last.pre, last.arg.dst)

\* a deploy with backup enabled replaced a link while an earlier backup of
\* the destination existed
C3_Witness ==
  /\ last.op \in Deploys /\ IsLink(last.pre, last.arg.dst)
  /\ last.arg.useBackup /\ last.res.err = "nil"
  /\ BackupEntries(last.pre, last.arg.dst) # {}

\* the deploy found an existing destination that is no symbolic link, with
\* backup enabled
BackupDue == IsPlain(last.pre, last.arg.dst) /\ last.arg.useBackup

\* the entry <destination>.backup.<timestamp of the call> lies beside the
\* destination and holds what the destination held before the call, and no
\* other backup entry of the destination appeared or changed
BackupMade ==
  LET was == Place(last.pre, last.arg.dst)
      b == Append(Parent(was), BaseOf(last.arg.dst) \o BackupInfix \o FormatTime(last.arg.t))
  IN /\ b \in BackupEntries(fs, last.arg.dst)
     /\ Place(fs, backupPathOf(last.arg.dst, last.arg.t)) = b
     /\ TreeAt(fs, b) = TreeAt(last.pre, was)
     /\ BackupEntries(fs, last.arg.dst) = BackupEntries(last.pre, last.arg.dst) \cup {b}
     /\ \A q \in BackupEntries(last.pre, last.arg.dst) \ {b} :
          TreeAt(fs, q) = TreeAt(last.pre, q)

NoBackupMade == BackupSnapshot(fs, last.arg.dst) = BackupSnapshot(last.pre, last.arg.dst)

\* C4 as stated: a deploy creates the backup entry exactly when the
\* destination exists, is no symbolic link and backup is enabled
C4_BackupExactlyWhenDue ==
  last.op \in Deploys => IF BackupDue THEN BackupMade ELSE NoBackupMade

\* C4, amended: a deploy creates the backup entry exactly when the
\* destination exists, is no symbolic link, backup is enabled and the rename
\* to the backup name succeeds; when the rename fails the call stops with
\* "failed to backup" and the filesystem is as it was
C4_BackupWhenDueAndRenamed ==
  last.op \in Deploys =>
    IF BackupDue /\ last.res.msg # "failed to backup" THEN BackupMade
    ELSE IF BackupDue THEN fs = last.pre /\ last.res.err # "nil"
    ELSE NoBackupMade

\* a deploy moved a directory with its content to the backup name
C4_Witness ==
  /\ last.op \in Deploys /\ BackupDue /\ last.res.err = "nil"
  /\ Lstat(last.pre, last.arg.dst).node.kind = "dir"
  /\ BackupMade

\* C5: a deploy in symlink mode with backup enabled that moved a plain file
\* or directory from D to its backup name, followed by a recover of that
\* backup to D, leaves at D the original content as an entry that is no
\* symbolic link, and the backup entry is gone
C5_RoundTrip ==
  (/\ last.op = "recoverFile"
   /\ last.prev.op \in Deploys
   /\ last.prev.useSymlink /\ last.prev.useBackup /\ last.prev.backedUp
   /\ last.arg.dst = last.prev.dst
   /\ last.arg.backupPath = backupPathOf(last.prev.dst, last.prev.t))
  => /\ last.res.err = "nil"
     /\ IsPlain(fs, last.arg.dst)
     /\ TreeAt(fs, Place(fs, last.arg.dst)) = last.prev.was
     /\ Lstat(fs, last.arg.backupPath).err = "ENOENT"

\* a directory was replaced by a link and then recovered from its backup
C5_Witness ==
  /\ last.op = "recoverFile"
  /\ last.prev.op \in Deploys
  /\ last.prev.useSymlink /\ last.prev.useBackup /\ last.prev.backedUp
  /\ last.arg.dst = last.prev.dst
  /\ last.arg.backupPath = backupPathOf(last.prev.dst, last.prev.t)
  /\ IsLink(last.pre, last.arg.dst)
  /\ last.prev.was[<<>>].kind = "dir"
  /\ last.res.err = "nil"

\* C6: after a successful recover the destination is an entry that is no
\* symbolic link and holds what the backup held, the backup path is gone,
\* and a second recover with the same backup path fails
C6_RecoverConsumesBackup ==
  (last.op = "recoverFile" /\ last.res.err = "nil") =>
    /\ IsPlain(fs, last.arg.dst)
    /\ TreeAt(fs, Place(fs, last.arg.dst))
         = TreeAt(last.pre, Place(last.pre, last.arg.backupPath))
    /\ Lstat(fs, last.arg.backupPath).err = "ENOENT"
    /\ recoverFile(fs, last.arg.backupPath, last.arg.dst).err # "nil"

\* a recover succeeded and the next call, a recover with the same arguments,
\* failed
C6_Witness ==
  /\ last.op = "recoverFile" /\ last.res.err # "nil"
  /\ last.prev.op = "recoverFile" /\ last.prev.err = "nil"
  /\ last.prev.dst = last.arg.dst /\ last.prev.backupPath = last.arg.backupPath

\* the names of the immediate entries of the directory that start with
\* <filename>.backup. (none when the directory cannot be read)
MatchingNames(f, dir, filename) ==
  LET d == Stat(f, dir)
      stem == filename \o BackupInfix
  IN IF d.err # "nil" \/ d.node.kind # "dir" THEN {}
     ELSE {q[Len(q)] : q \in {x \in DOMAIN f : /\ Len(x) = Len(d.path) + 1
                                               /\ IsUnder(d.path, x)
                                               /\ Len(x[Len(x)]) >= Len(stem)
                                               /\ SubSeq(x[Len(x)], 1, Len(stem)) = stem}}

\* C7: FindBackups(dir, name) returns exactly the immediate entries of dir
\* whose names start with <name>.backup., each once, with its path in dir
\* and the rest of its name as timestamp, in strictly descending order of
\* the timestamp strings; nothing for a directory that cannot be read
C7_FindBackupsExactAndOrdered ==
  last.op = "FindBackups" =>
    LET out == last.res
        dir == last.arg.dir
        filename == last.arg.filename
        nameOf(b) == filename \o BackupInfix \o b.Timestamp
    IN /\ {nameOf(out[i]) : i \in 1..Len(out)} = MatchingNames(fs, dir, filename)
       /\ Len(out) = Cardinality(MatchingNames(fs, dir, filename))
       /\ \A i \in 1..Len(out) :
            /\ out[i].OriginalName = filename
            /\ out[i].BackupPath = Join(dir, nameOf(out[i]))
       /\ \A i, j \in 1..Len(out) : i < j => StrLess(out[j].Timestamp, out[i].Timestamp)

\* the three backups of the example were found, newest first, in a
\* directory that also holds a backup of another file
C7_Witness ==
  /\ last.op = "FindBackups" /\ last.arg.dir = HomeDir /\ last.arg.filename = ea
  /\ Len(last.res) = 3
  /\ <<last.res[1].Timestamp, last.res[2].Timestamp, last.res[3].Timestamp>>
       = <<TsFeb15, TsJan10, TsJan01>>
  /\ <<eh, eb \o BackupInfix \o TsJan01>> \in DOMAIN fs

C9_ExactMatchOrNotFound ==
  last.op = "selectBackup" =>
    LET backups == last.arg.backups
        timestamp == last.arg.timestamp
        hits == {i \in 1..Len(backups) : backups[i].Timestamp = timestamp}
    IN /\ Len(backups) = 0 => last.res.err # ""
       /\ (Len(backups) > 0 /\ timestamp # Latest) =>
            IF hits # {}
            THEN /\ last.res.err = ""
                 /\ last.res.backup.Timestamp = timestamp
                 /\ \E i \in hits : backups[i] = last.res.backup
            ELSE /\ last.res.err = "no backup found with timestamp"
                 /\ last.res.arg = timestamp

\* a timestamp that no backup of the list has was asked for
C9_Witness ==
  /\ last.op = "selectBackup" /\ last.arg.timestamp = TsNines
  /\ Len(last.arg.backups) >= 2
  /\ last.res.err = "no backup found with timestamp"
  /\ last.res.arg = TsNines

\* the source of the mapping does not exist in the repository
SourceMissing(r) == Stat(r.before, r.src).err # "nil"

\* C10: Import skips every mapping whose source does not exist in the
\* repository: the mapping is marked skipped, the filesystem is as it was
\* before the mapping, no error is recorded, and Import does not stop
C10_MissingSourceSkipped ==
  last.op = "Import" =>
    /\ last.res.ret # "panic"
    /\ \A i \in 1..Len(last.res.results) :
         LET r == last.res.results[i] IN
         SourceMissing(r) => r.Skipped /\ r.after = r.before /\ r.Error = "nil"

\* C11: Import skips every mapping whose source is of the other kind (a
\* directory mapping with a file as source, a file mapping with a directory
\* as source): the mapping is marked skipped, the filesystem is as it was
\* before the mapping and no error is recorded.  The files are gone through
\* before the directories, so the first results are those of the files.
C11_KindMismatchSkipped ==
  last.op = "Import" =>
    \A i \in 1..Len(last.res.results) :
      LET r == last.res.results[i]
          s == Stat(r.before, r.src)
          isFileMapping == i <= Len(last.arg.cfg.Files)
          kindMismatch ==
            /\ s.err = "nil"
            /\ IF isFileMapping THEN s.node.kind = "dir" ELSE s.node.kind # "dir"
      IN kindMismatch => r.Skipped /\ r.after = r.before /\ r.Error = "nil"

\* C12: after Import has deployed a mapping in symlink mode, the destination
\* is a symbolic link whose target is an absolute path, and that path is the
\* place of the source entry, for files and directories and however
\* local_path is written
C12_LinkToAbsoluteSource ==
  (last.op = "Import" /\ ~last.arg.opts.DryRun /\ last.arg.opts.Symlink) =>
    \A i \in 1..Len(last.res.results) :
      LET r == last.res.results[i]
          link == Lstat(r.after, r.dst)
      IN r.Success =>
           /\ link.err = "nil" /\ link.node.kind = "symlink"
           /\ IsAbs(link.node.target)
           /\ Stat(r.after, link.node.target).err = "nil"
           /\ Stat(r.after, link.node.target).path = Stat(r.before, r.src).path

\* the regular files of the tree at the place p, by their path below p,
\* each with its content
FilesBelow(f, p) ==
  LET t == TreeAt(f, p) IN
  [q \in {x \in DOMAIN t : t[x].kind = "file"} |-> t[q].content]

\* C13: after a successful deploy of a directory in copy mode the
\* destination is a directory and no symbolic link; every regular file of
\* the source tree is a regular file below the destination, at the same
\* relative path and with the same content, at every depth; and every
\* regular file below the destination is an entry of the source tree at
\* that path, which reads as a file with that content
C13_CopyFidelity ==
  (last.op = "importDirectory" /\ ~last.arg.useSymlink /\ last.res.err = "nil") =>
    LET d == Lstat(fs, last.arg.dst)
        s == Stat(last.pre, last.arg.src)
        copied == FilesBelow(fs, d.path)
        given == FilesBelow(last.pre, s.path)
    IN /\ d.err = "nil" /\ d.node.kind = "dir"
       /\ \A q \in DOMAIN given : q \in DOMAIN copied /\ copied[q] = given[q]
       /\ \A q \in DOMAIN copied :
            LET e == StatAt(last.pre, Walk(last.pre, s.path, q, TRUE, MaxLinks)) IN
            /\ s.path \o q \in DOMAIN last.pre
            /\ e.err = "nil" /\ e.node.kind = "file" /\ e.node.content = copied[q]

\* a directory with a file of the user in it was replaced by a copy of the
\* source, which has a file in a sub-directory
C13_Witness ==
  /\ last.op = "importDirectory" /\ ~last.arg.useSymlink /\ last.res.err = "nil"
  /\ ~last.arg.useBackup
  /\ "mine" \in {FilesBelow(last.pre, Place(last.pre, last.arg.dst))[q] :
                   q \in DOMAIN FilesBelow(last.pre, Place(last.pre, last.arg.dst))}
  /\ \E q \in DOMAIN FilesBelow(fs, Place(fs, last.arg.dst)) : Len(q) = 2

\* the call before last and the last call are the same deploy (the same
\* source to the same destination) in copy mode with backup disabled, and
\* the first of them succeeded
SameCopyTwice ==
  /\ last.op \in Deploys /\ last.prev.op = last.op
  /\ last.prev.dst = last.arg.dst
  /\ ~last.prev.useSymlink /\ ~last.arg.useSymlink
  /\ ~last.prev.useBackup /\ ~last.arg.useBackup
  /\ last.prev.err = "nil"

\* C14: the second of two equal copy-mode deploys with backup disabled
\* succeeds, leaves the destination with the content it had after the
\* first, and leaves the backup entries of the destination as they were
C14_CopyIdempotent ==
  SameCopyTwice =>
    /\ last.res.err = "nil"
    /\ IsPlain(fs, last.arg.dst)
    /\ TreeAt(fs, Place(fs, last.arg.dst)) = TreeAt(last.pre, Place(last.pre, last.arg.dst))
    /\ BackupSnapshot(fs, last.arg.dst) = BackupSnapshot(last.pre, last.arg.dst)

\* a directory was copied twice to a destination beside which an earlier
\* backup lies
C14_Witness ==
  /\ SameCopyTwice /\ last.op = "importDirectory" /\ last.res.err = "nil"
  /\ BackupEntries(fs, last.arg.dst) # {}

\* C15 as stated: every destination has at most one backup entry
C15_AtMostOneBackup ==
  \A dst \in Destinations : Cardinality(BackupEntries(fs, dst)) <= 1

\* C15, amended: the backup entries of a destination accumulate; a deploy
\* adds at most one, the entry <destination>.backup.<timestamp of the
\* call>, and a recover adds none
C15_OneBackupPerCall ==
  /\ last.op \in Deploys =>
       LET added == BackupEntries(fs, last.arg.dst) \ BackupEntries(last.pre, last.arg.dst)
       IN /\ Cardinality(added) <= 1
          /\ \A q \in added :
               q[Len(q)] = BaseOf(last.arg.dst) \o BackupInfix \o FormatTime(last.arg.t)
  /\ last.op = "recoverFile" =>
       BackupEntries(fs, last.arg.dst) \subseteq BackupEntries(last.pre, last.arg.dst)

\* a deploy added a backup entry to the one the destination already had
C15_Witness ==
  /\ last.op \in Deploys
  /\ Cardinality(BackupEntries(last.pre, last.arg.dst)) = 1
  /\ Cardinality(BackupEntries(fs, last.arg.dst)) = 2
  /\ BackupEntries(last.pre, last.arg.dst) \subseteq BackupEntries(fs, last.arg.dst)

\* the backup entry q of the destination is in f2 what it was in f1
BackupKept(f1, f2, q) == q \in DOMAIN f2 /\ TreeAt(f2, q) = TreeAt(f1, q)

\* a successful recover leaves of the backup entries of its destination all
\* but the one it restored, each as it was
RecoverTakesOne ==
  (last.op = "recoverFile" /\ last.res.err = "nil") =>
    BackupSnapshot(fs, last.arg.dst)
      = [q \in BackupEntries(last.pre, last.arg.dst) \ {Place(last.pre, last.arg.backupPath)}
           |-> TreeAt(last.pre, q)]

\* C16 as stated: a deploy leaves every backup entry that its destination
\* has as it was, and a successful recover removes the one entry it
\* restored and leaves the others as they were
C16_OnlyRecoverDestroys ==
  /\ last.op \in Deploys =>
       \A q \in BackupEntries(last.pre, last.arg.dst) : BackupKept(last.pre, fs, q)
  /\ RecoverTakesOne

\* C16, amended: a deploy leaves every backup entry that its destination
\* has as it was, but for the entry that carries the timestamp of the call,
\* which a deploy that makes a backup replaces; a successful recover removes
\* the one entry it restored and leaves the others as they were
C16_OnlyRecoverOrSameSecond ==
  /\ last.op \in Deploys =>
       \A q \in BackupEntries(last.pre, last.arg.dst) :
         \/ BackupKept(last.pre, fs, q)
         \/ /\ q[Len(q)] = BaseOf(last.arg.dst) \o BackupInfix \o FormatTime(last.arg.t)
            /\ last.arg.useBackup /\ last.res.cleared = "rename"
            /\ TreeAt(fs, q) = TreeAt(last.pre, Place(last.pre, last.arg.dst))
  /\ RecoverTakesOne

\* a recover restored one of two backups of its destination and the other
\* one is still there
C16_Witness ==
  /\ last.op = "recoverFile" /\ last.res.err = "nil"
  /\ Cardinality(BackupEntries(last.pre, last.arg.dst)) = 2
  /\ Cardinality(BackupEntries(fs, last.arg.dst)) = 1

\* the call before last and the last call are deploys with backup enabled
\* to the same destination in the same second; the first made a backup and
\* the second finds an entry that is no symbolic link
SameSecondBackups ==
  /\ last.op \in Deploys /\ last.prev.op \in Deploys
  /\ last.prev.dst = last.arg.dst
  /\ last.prev.useBackup /\ last.arg.useBackup
  /\ last.prev.backedUp /\ last.prev.t = last.arg.t
  /\ IsPlain(last.pre, last.arg.dst)

\* the backup of the second call was made, and the backup entry now holds
\* what the second call found at the destination
SecondBackupOverwrote ==
  /\ last.res.cleared = "rename" /\ last.res.msg # "failed to backup"
  /\ TreeAt(fs, Place(fs, backupPathOf(last.arg.dst, last.arg.t)))
       = TreeAt(last.pre, Place(last.pre, last.arg.dst))

Touched(f1, f2) ==
  {q \in DOMAIN f1 \cup DOMAIN f2 :
     q \notin DOMAIN f1 \/ q \notin DOMAIN f2 \/ f1[q] # f2[q]}

\* C18: a deploy call changes nothing but the destination (the entry and what
\* is below it), the backup name beside it, and the directories above the
\* destination that were missing; what appears at the backup name is the one
\* renamed entry, exactly what was at the destination, and only a call that
\* renamed puts anything there
C18_DeployFrame ==
  last.op \in Deploys =>
    LET before == Resolve(last.pre, last.arg.dst, FALSE)
        after  == Resolve(fs, last.arg.dst, FALSE)
        D == IF before.err = "nil" THEN before.path ELSE after.path
        B == Parent(D) \o <<BaseOf(last.arg.dst) \o BackupInfix \o FormatTime(last.arg.t)>>
    IN  /\ before.err # "nil" /\ after.err # "nil" => fs = last.pre
        /\ \A q \in Touched(last.pre, fs) :
             \/ IsUnder(D, q)
             \/ /\ IsUnder(B, q)
                /\ last.res.cleared = "rename"
                /\ TreeAt(fs, B) = TreeAt(last.pre, D)
             \/ /\ q \notin DOMAIN last.pre /\ fs[q].kind = "dir"
                /\ IsUnder(q, D) /\ before.err # "nil"
        /\ last.res.cleared = "rename" /\ last.res.msg # "failed to backup" =>
             TreeAt(fs, B) = TreeAt(last.pre, D)

\* a deploy to a destination below the home directory's first level renamed
\* the entry it found and installed the source
C18_Witness ==
  /\ last.op \in Deploys
  /\ last.arg.dst = Str(<<eh, ea, es>>)
  /\ last.res.cleared = "rename" /\ last.res.err = "nil"
  /\ Touched(last.pre, fs) # {}

\* C19: with backup disabled, a deploy that finds an entry that is no
\* symbolic link at its destination removes it, whatever its kind, and goes
\* on to install the source: the call issues the removal and the removal is
\* not what fails
C19_RemovedOutright ==
  (/\ last.op \in Deploys
   /\ ~last.arg.useBackup
   /\ IsPlain(last.pre, last.arg.dst)) =>
     /\ last.res.cleared \in {"remove", "removeAll"}
     /\ last.res.msg \notin {"failed to remove existing file",
                             "failed to remove existing directory"}

\* C20: a recovery that is refused the removal of the present destination
\* returns an error tagged "failed to remove current file" and leaves every
\* backup of the destination as it was; a recovery whose rename fails, the
\* destination being out of the way, returns an error tagged "failed to
\* recover backup", the backups of the destination are as they were, and
\* nothing is at the destination
C20_RecoverFailureSurfaced ==
  last.op = "recoverFile" =>
    LET present == Lstat(last.pre, last.arg.dst)
        removalRefused ==
          /\ present.err = "nil"
          /\ \/ "remove" \in last.arg.denied
             \/ present.node.kind = "dir" /\ "rmdir" \in last.arg.denied
        kept == BackupSnapshot(fs, last.arg.dst) = BackupSnapshot(last.pre, last.arg.dst)
    IN  /\ removalRefused =>
             /\ last.res.err # "nil"
             /\ last.res.msg = "failed to remove current file"
             /\ kept
        /\ (~removalRefused /\ \/ "rename" \in last.arg.denied
                               \/ Lstat(last.pre, last.arg.backupPath).err # "nil") =>
             /\ last.res.err # "nil"
             /\ last.res.msg = "failed to recover backup"
             /\ kept
             /\ Lstat(fs, last.arg.dst).err # "nil"
        /\ last.res.err # "nil" =>
             /\ last.res.msg \in {"failed to remove current file", "failed to recover backup"}
             /\ kept
        /\ last.res.err = "nil" => ~removalRefused /\ "rename" \notin last.arg.denied

\* the destination was removed and the rename of an existing backup refused
C20_Witness ==
  /\ last.op = "recoverFile"
  /\ "rename" \in last.arg.denied
  /\ Lstat(last.pre, last.arg.dst).err = "nil"
  /\ Lstat(last.pre, last.arg.backupPath).err = "nil"
  /\ last.res.msg = "failed to recover backup"
  /\ Lstat(fs, last.arg.dst).err # "nil"
  /\ Lstat(fs, last.arg.backupPath).err = "nil"

\* a recovery was refused the removal of the destination while a backup lay
\* beside it
C20_WitnessRemoval ==
  /\ last.op = "recoverFile"
  /\ last.res.msg = "failed to remove current file"
  /\ BackupEntries(last.pre, last.arg.dst) # {}

\* the destinations of the mappings of an Import call, in the order in which
\* it processes them
MappingDsts(arg) ==
  LET files == IF Len(arg.opts.Files) = 0 THEN arg.cfg.Files ELSE arg.opts.Files
  IN  [i \in 1..Len(files) |-> Join(HomeDir, files[i])]
        \o [i \in 1..Len(arg.cfg.Directories) |->
              expandTilde(Join(HomeDir, arg.cfg.Directories[i].Target))]

\* the entry that the path s names, with all below it, as it is in f
EntryAt(f, s) == TreeAt(f, Place(f, s))

\* the deployed mapping with result r, and the backup it made at second t,
\* are in f2 as they are in f1
StaysApplied(r, t, f1, f2) ==
  /\ EntryAt(f2, r.dst) = EntryAt(f1, r.dst)
  /\ r.cleared = "rename" =>
       EntryAt(f2, backupPathOf(r.dst, t)) = EntryAt(f1, backupPathOf(r.dst, t))

\* the Import call l stopped at a failing mapping, or a mapping after its
\* j-th result failed
FailedAfter(l, j) ==
  \/ l.res.ret \in {"failed to import", "failed to import directory"}
  \/ \E k \in (j + 1)..Len(l.res.results) : l.res.results[k].Error # "nil"

\* a mapping that the Import call l took up after the j-th result, without
\* skipping it, has its destination at, above or below that of the j-th;
\* the mapping at which the call stopped is the one after its last result
OverlaidAfter(l, j) ==
  LET rs == l.res.results
      at == Place(rs[j].after, rs[j].dst)
      Nested(p) == IsUnder(at, p) \/ IsUnder(p, at)
  IN  \/ \E k \in (j + 1)..Len(rs) :
           ~rs[k].Skipped /\ Nested(Place(rs[k].before, rs[k].dst))
      \/ /\ l.res.ret \in {"failed to import", "failed to import directory"}
         /\ Nested(Place(rs[Len(rs)].after, MappingDsts(l.arg)[Len(rs) + 1]))

C22_BoolDefaultsTrue ==
  last.op = "runImportDotfiles" =>
    /\ "backup" \notin DOMAIN last.arg.toml =>
         /\ last.res.cfg.Backup
         /\ ~last.arg.flags.noBackup => last.res.opts.Backup
    /\ "symlink" \notin DOMAIN last.arg.toml =>
         /\ last.res.cfg.Symlink
         /\ ~last.arg.flags.copy => last.res.opts.Symlink

\* the error of the last deploy names the step that failed: a refused rename
\* "failed to backup", a refused removal "failed to remove existing ...", a
\* refused mkdir "failed to create parent directory"; the error of the
\* symlink or the copy is returned as the system gives it, once the steps
\* before it are done; and every error means that the call returned there.
\* RefusedCall is the call on the existing destination or the missing
\* parent that the system refuses
StepIdentified ==
  LET present == Lstat(last.pre, last.arg.dst)
      backsUp == present.err = "nil" /\ last.arg.useBackup /\ present.node.kind # "symlink"
      recursive == /\ present.err = "nil" /\ ~backsUp
                   /\ last.op = "importDirectory" /\ present.node.kind = "dir"
      RefusedCall ==
        IF backsUp /\ "rename" \in last.arg.denied THEN "rename"
        ELSE IF present.err = "nil" /\ ~backsUp /\ "remove" \in last.arg.denied THEN "remove"
        ELSE IF recursive /\ "rmdir" \in last.arg.denied THEN "rmdir"
        ELSE IF "mkdir" \in last.arg.denied
                  /\ Stat(last.pre, Dir[last.arg.dst]).err # "nil"
                  /\ present.err # "nil" THEN "mkdir"
        ELSE "none"
  IN  /\ RefusedCall = "rename" => last.res.msg = "failed to backup"
      /\ RefusedCall \in {"remove", "rmdir"} =>
           last.res.msg \in {"failed to remove existing file",
                             "failed to remove existing symlink",
                             "failed to remove existing directory"}
      /\ RefusedCall = "mkdir" => last.res.msg = "failed to create parent directory"
      /\ (RefusedCall # "none" \/ "install" \in last.arg.denied) => last.res.err # "nil"
      /\ last.res.msg # "" => last.res.err # "nil"
      /\ (last.res.err # "nil" /\ last.res.msg = "") =>
           /\ Stat(fs, Dir[last.arg.dst]).node.kind = "dir"
           /\ RefusedCall = "none"

\* C23 as stated: every failure of a deploy names its step, and after a
\* failed backup rename or a failed removal the filesystem is as it was
C23_FailureTagged ==
  last.op \in Deploys =>
    /\ StepIdentified
    /\ last.res.msg \in {"failed to backup", "failed to remove existing file",
                         "failed to remove existing symlink",
                         "failed to remove existing directory"} => fs = last.pre

\* C23, amended: every failure of a deploy names its step; after a failed
\* backup rename, or a failed removal of a file or a symbolic link, the
\* filesystem is as it was; after a failed recursive removal of a directory
\* nothing is created and nothing outside the destination is changed, the
\* destination is still a directory, but entries below it can be gone
C23_FailureTaggedRemovalPartial ==
  last.op \in Deploys =>
    /\ StepIdentified
    /\ last.res.msg \in {"failed to backup", "failed to remove existing file",
                         "failed to remove existing symlink"} => fs = last.pre
    /\ last.res.msg = "failed to remove existing directory" =>
         /\ DOMAIN fs \subseteq DOMAIN last.pre
         /\ \A q \in DOMAIN fs : fs[q] = last.pre[q]
         /\ \A q \in DOMAIN last.pre \ DOMAIN fs :
              IsUnder(Place(last.pre, last.arg.dst), q) /\ q # Place(last.pre, last.arg.dst)

\* the recursive removal of a directory with entries was refused after the
\* entries were removed
C23_Witness ==
  /\ last.op = "importDirectory"
  /\ last.res.msg = "failed to remove existing directory"
  /\ fs # last.pre

\* a backup rename was refused and nothing changed
C23_WitnessRename ==
  /\ last.op \in Deploys
  /\ last.res.msg = "failed to backup" /\ "rename" \in last.arg.denied
  /\ fs = last.pre

\* C24: a recovery whose destination is a symbolic link changes nothing but
\* the link itself and the backup it is given, so what the link points at
\* stays as it is; a recovery whose destination is a directory leaves
\* nothing of that directory: the destination then holds what the backup
\* held, or nothing when the rename failed
C24_LinkRemovedAlone ==
  last.op = "recoverFile" =>
    LET D == Place(last.pre, last.arg.dst)
        B == Place(last.pre, last.arg.backupPath)
    IN  /\ IsLink(last.pre, last.arg.dst) =>
             \A q \in DOMAIN last.pre :
               (q # D /\ ~IsUnder(B, q)) => q \in DOMAIN fs /\ fs[q] = last.pre[q]
        /\ (IsPlain(last.pre, last.arg.dst) /\ last.pre[D].kind = "dir") =>
             TreeAt(fs, D) = IF last.res.err = "nil" THEN TreeAt(last.pre, B) ELSE <<>>

\* a recovery removed a symbolic link that pointed at a directory with
\* entries
C24_Witness ==
  /\ last.op = "recoverFile"
  /\ IsLink(last.pre, last.arg.dst)
  /\ Stat(last.pre, last.arg.dst).err = "nil"
  /\ Stat(last.pre, last.arg.dst).node.kind = "dir"
  /\ HasChildren(last.pre, Stat(last.pre, last.arg.dst).path)
  /\ ~IsLink(fs, last.arg.dst)

\* C25: an apply-mode Import or Backup without Continue stops at the first
\* failing mapping and returns an error, no mapping after it being taken up;
\* with Continue it takes up every mapping, the files before the
\* directories, each in the order of its list, and returns no error
C25_ContinuePolicy ==
  /\ (last.op = "Import" /\ ~last.arg.opts.DryRun) =>
       LET rs == last.res.results
           dsts == MappingDsts(last.arg)
       IN  /\ \A i \in 1..Len(rs) : rs[i].dst = dsts[i]
           /\ IF last.arg.opts.Continue
              THEN last.res.ret = "nil" /\ Len(rs) = Len(dsts)
              ELSE /\ \A i \in 1..Len(rs) : rs[i].Error = "nil"
                   /\ last.res.ret = "nil" => Len(rs) = Len(dsts) /\ ~last.res.hasErrors
                   /\ last.res.ret # "nil" =>
                        /\ last.res.ret \in {"failed to import", "failed to import directory"}
                        /\ Len(rs) < Len(dsts) /\ last.res.hasErrors
  /\ (last.op = "Backup" /\ ~last.arg.opts.DryRun) =>
       LET rs == last.res.results
           names == last.arg.cfg.Files
                      \o [i \in 1..Len(last.arg.cfg.Directories) |->
                            last.arg.cfg.Directories[i].Target]
       IN  /\ \A i \in 1..Len(rs) : rs[i].File = names[i]
           /\ IF last.arg.opts.Continue
              THEN last.res.ret = "nil" /\ Len(rs) = Len(names)
              ELSE /\ \A i \in 1..Len(rs) : rs[i].status = "error" => i = Len(rs)
                   /\ (\E i \in 1..Len(rs) : rs[i].status = "error") <=> last.res.ret # "nil"
                   /\ last.res.ret = "nil" => Len(rs) = Len(names)

\* C26: in the recovery batch a destination with no backup entry beside it,
\* or none whose timestamp is the requested one, is skipped: the filesystem
\* is as it was before that mapping, it is not reported as recovered or as an
\* error, and when every mapping is skipped the batch returns nil; with an
\* empty timestamp the batch selects as with "latest", the first backup found
C26_UnmatchedSkipped ==
  last.op = "Backup" =>
    LET rs == last.res.results
        asked == last.arg.opts.Timestamp
        Matches(i) ==
          \E t \in Clock :
            /\ Lstat(rs[i].before, backupPathOf(rs[i].dst, t)).err = "nil"
            /\ asked \in {<<>>, Latest} \/ FormatTime(t) = asked
        Skipped(i) ==
          /\ rs[i].after = rs[i].before
          /\ rs[i].Error = "nil"
          /\ rs[i].status \in {"skip (no backup found)", "no backup found with timestamp"}
    IN  /\ \A i \in 1..Len(rs) : ~Matches(i) => Skipped(i)
        /\ (\A i \in 1..Len(rs) : ~Matches(i)) =>
             last.res.ret = "nil" /\ ~last.res.hasErrors /\ fs = last.pre
        /\ asked = <<>> =>
             \A i \in 1..Len(rs) :
               Len(rs[i].backups) > 0 =>
                 /\ rs[i].backup = rs[i].backups[1]
                 /\ rs[i].status \in {"recover", "ok", "error"}

\* a recovery batch asked for a timestamp that a destination's backups do not
\* have, while another destination has no backup at all
C26_Witness ==
  /\ last.op = "Backup" /\ ~last.arg.opts.DryRun
  /\ last.arg.opts.Timestamp = FormatTime(StartClock)
  /\ \E i, j \in 1..Len(last.res.results) :
       /\ last.res.results[i].status = "no backup found with timestamp"
       /\ Len(last.res.results[i].backups) > 0
       /\ Lstat(fs, last.res.results[i].dst).err = "nil"
       /\ last.res.results[j].status = "skip (no backup found)"

\* a recovery batch with an empty timestamp restored the newest backup
C26_WitnessEmpty ==
  /\ last.op = "Backup" /\ ~last.arg.opts.DryRun
  /\ last.arg.opts.Timestamp = <<>>
  /\ \E i \in 1..Len(last.res.results) : last.res.results[i].status = "ok"

\* C27: every backup an apply-mode Import makes of a mapping's destination is
\* found by the recovery batch's search FindBackups(homeDir, name) for the
\* same configured name or target, nested targets included
C27_BackupsDiscoverable ==
  (last.op = "Import" /\ ~last.arg.opts.DryRun) =>
    \A i \in 1..Len(last.res.results) :
      LET r == last.res.results[i]
          names == last.arg.cfg.Files
                     \o [j \in 1..Len(last.arg.cfg.Directories) |->
                           last.arg.cfg.Directories[j].Target]
          made == backupPathOf(r.dst, last.arg.t)
          found == FindBackups(r.after, HomeDir, names[i])
      IN  (r.cleared = "rename" /\ r.Msg # "failed to backup"
             /\ Lstat(r.after, made).err = "nil") =>
            \E k \in 1..Len(found) :
              Place(r.after, found[k].BackupPath) = Place(r.after, made)

\* C28 as stated: a recovery that returns an error leaves the destination as
\* it was before the call
C28_FailedRecoverKeepsDestination ==
  (last.op = "recoverFile" /\ last.res.err # "nil") =>
    EntryAt(fs, last.arg.dst) = EntryAt(last.pre, last.arg.dst)

\* C28: a recovery that returns an error changes nothing but the destination;
\* the destination is as it was when there was none to remove or when the
\* removal of a file or link was refused, and it is gone, nothing put in its
\* place, when the rename failed, as it does for a backupPath that does not
\* exist
C28_FailedRecoverLosesDestination ==
  (last.op = "recoverFile" /\ last.res.err # "nil") =>
    LET was == Lstat(last.pre, last.arg.dst)
    IN  /\ was.err # "nil" => fs = last.pre
        /\ was.err = "nil" =>
             /\ RemoveTree(fs, was.path) = RemoveTree(last.pre, was.path)
             /\ last.res.msg = "failed to recover backup" =>
                  Lstat(fs, last.arg.dst).err = "ENOENT"
             /\ (last.res.msg = "failed to remove current file"
                   /\ was.node.kind # "dir") => fs = last.pre
             /\ (last.res.msg = "failed to remove current file"
                   /\ was.node.kind = "dir") => Lstat(fs, last.arg.dst) = was

\* a recovery, with no call refused, found no backup at backupPath after it
\* had removed the destination
C28_Witness ==
  /\ last.op = "recoverFile" /\ last.arg.denied = {}
  /\ last.res.err = "ENOENT" /\ last.res.msg = "failed to recover backup"
  /\ Lstat(last.pre, last.arg.backupPath).err = "ENOENT"
  /\ Lstat(last.pre, last.arg.dst).err = "nil"
  /\ Lstat(fs, last.arg.dst).err = "ENOENT"

\* C29: with backup enabled and every deploy in a second of its own, after
\* any sequence of deploys on one destination each entry that a deploy found
\* at the destination, and that was not a symbolic link, is unchanged at the
\* backup name of that deploy
C29_DisplacedKept ==
  (last.op \in {"importFile", "importDirectory"} /\ "displaced" \in DOMAIN last) =>
    \A d \in last.displaced :
      /\ Lstat(fs, d.at).err = "nil"
      /\ TreeAt(fs, Lstat(fs, d.at).path) = d.tree

\* two deploys on one destination, a copy and then a link, each displaced an
\* entry: the user's own and the copy
C29_Witness ==
  /\ last.op \in {"importFile", "importDirectory"} /\ "displaced" \in DOMAIN last
  /\ Cardinality(last.displaced) = 2
  /\ last.arg.useSymlink /\ ~last.prev.useSymlink
  /\ last.res.err = "nil" /\ last.prev.err = "nil"

\* C30: no deploy, recovery or batch renames, removes, creates or overwrites
\* an entry inside the source repository: the tree below ~/r stays as it was
\* cloned
C30_RepositoryUntouched ==
  TreeAt(fs, RepoRoot) = RepoTree

====
